---- MODULE Spec2Model ----
(***************************************************************************)
(* Model of the frame rendering pipeline of vulkan_engine:                 *)
(*   engine/src/vulkan/renderer.rs  (Renderer::render, handle_resize,      *)
(*                                   create_in_flight_frames, ...)         *)
(*   engine/src/vulkan/buffer.rs    (Buffer)                               *)
(* The CPU side is one thread that runs render / handle_resize; the GPU is *)
(* a concurrent consumer of the submitted batches.  A fence wait is a      *)
(* blocking point: the step after it is enabled only once the fence is     *)
(* signaled.  All sizes and offsets are in bytes.                          *)
(***************************************************************************)
EXTENDS Integers, Sequences, FiniteSets, TLC

(* ---------------- program constants ---------------- *)
IN_FLIGHT_FRAMES_COUNT == 2
F32Size == 4
U16Size == 2
U32Size == 4
FRAME_DATA_MEMORY_SIZE == 76 * F32Size
MAX_POINT_LIGHTS == 5
MeshUniformSize == 16 * F32Size
TextMatrixUniformSize == 12 * F32Size
NullFence == 0
NullHandle == 0

(* ---------------- bounds of the model ---------------- *)
\* number of swapchain images the surface hands out (images.len() in create_swapchain)
NumImages == 2
\* most objects, meshes and text together, of a scene of the frame-layout specification
MaxObjects == 3
\* the object lists of the layout specification: longest list, most indices of an object
MaxLayoutObjects == 2
MaxIndexCount == 3
\* the largest capacity asked of Buffer::reallocate, in units of 64 bytes
MaxCapacityUnits == 6
\* the entities of the component-list specification (the length of entity_to_index_map)
MaxEntities == 3

(* the device's minUniformBufferOffsetAlignment (a power of two) *)
UniformAlignments == {16, 256}
(* geometries as <<index count, attribute float count>>: Geometry3D::create_triangle and
   create_plane, position and normal per vertex; a text run of one glyph quad *)
Triangle == <<3, 18>>
Plane == <<6, 24>>
GlyphQuad == <<6, 16>>
(* no point light, the maximum, and one more than the maximum *)
PointLightCounts == {0, MAX_POINT_LIGHTS, MAX_POINT_LIGHTS + 1}

Slots == 0 .. IN_FLIGHT_FRAMES_COUNT - 1
Images == 0 .. NumImages - 1

VARIABLES
    uniform_alignment,        \* context.physical_device.min_uniform_buffer_offset_alignment
    in_flight_frames,         \* Renderer.in_flight_frames: per slot fence, buffer, descriptor sets
    current_in_flight_frame,  \* Renderer.current_in_flight_frame
    swapchain_frames,         \* Renderer.swapchain.frames: per image the last-submission fence
    fence_signaled,           \* device state of every fence object
    submissions,              \* batches submitted to the graphics queue and not yet completed
    pc,                       \* position of the CPU thread
    image_index,              \* render local: the acquired image
    acquire_result,           \* render local: result of acquire_next_image
    present_result,           \* render local: result of queue_present
    call,                     \* the render call so far: its slot, its point lights, how far it got
    ret,                      \* value returned by the render call
    scene,                    \* the Scene passed to render, as the caller built it
    frame,                    \* the frame render laid out from the scene: offsets, buffer, writes
    static_mesh_buffer,       \* mesh_rendering_pipeline_resources.static_mesh_buffer
    static_mesh_render_info,  \* mesh_rendering_pipeline_resources.static_mesh_render_info
    static_mesh_data_descriptor_set, \* what static_mesh_data_descriptor_set refers to
    static_call,              \* the submit_static_meshes call so far, and the one before it
    layout,                   \* an object list, and the offsets the packers give it
    submitted_slots,          \* the slots of the last submitted frames, oldest first
    resize,                   \* what the handle_resize call that just ran found and did
    reallocation,             \* a Buffer, the device's allocations, a reallocate call on it
    component_list,           \* a ComponentList, what its caller gave it, the last call on it
    recording,                \* the materials of a scene and of the static table, and where their draws were recorded
    ui_projection_matrix,     \* Renderer::ui_projection_matrix, rows of quotients
    matrices,                 \* the objects of a scene, their transforms and the matrices last packed
    gpu                       \* the semaphores, the graphics queue and the batches on the device

static_vars == <<static_mesh_buffer, static_mesh_render_info,
                 static_mesh_data_descriptor_set, static_call>>

vars == <<uniform_alignment, in_flight_frames, current_in_flight_frame, swapchain_frames,
          fence_signaled, submissions, pc, image_index, acquire_result, present_result,
          call, ret, scene, frame, static_vars, layout, submitted_slots, resize,
          reallocation, component_list, recording, ui_projection_matrix, matrices, gpu>>

(* ---------------- Buffer (buffer.rs) ---------------- *)
\* Buffer::new: a fresh allocation of the requested capacity
BufferNew(handle, capacity) == [handle |-> handle, capacity |-> capacity]

\* Buffer::allocate returns a handle that no live object uses: the lowest one after the
\* handles in live (handle values of destroyed buffers may be handed out again)
AllocateHandle(live) ==
    CHOOSE h \in 1 .. Cardinality(live) + 1 : h \notin live /\ \A k \in 1 .. h - 1 : k \in live

\* Buffer::reallocate: the old buffer is destroyed, a new handle of the new capacity replaces it;
\* live are the handles that are still referenced, the old buffer's among them
BufferReallocate(buffer, capacity, live) ==
    [handle |-> AllocateHandle(live \cup {buffer.handle}), capacity |-> capacity]

(* ---------------- fences ---------------- *)
\* the completion fence object owned by slot s
FenceOf(s) == s + 1

\* wait_for_fences(.., true, u64::MAX) returns only when the fence is signaled
WaitForFences(fence) == fence_signaled[fence]

(* ---------------- frame packer: offsets (render, lines 1011-1062) ---------------- *)
\* faulty variant: the padding without the outer modulo, a full word when the end is already aligned
IndexPaddingSizeNoWrap(offset, index_size) ==
    F32Size - ((offset + index_size) % F32Size)

\* lines 1021, 1047: bytes that pad the end of the indices to a multiple of 4
IndexPaddingSize(offset, index_size) ==
    (F32Size - ((offset + index_size) % F32Size)) % F32Size

\* faulty variant: the padding is computed from the attribute size alone
AttributePaddingSizeOfSize(attribute_offset, attribute_size, alignment) ==
    (alignment - (attribute_size % alignment)) % alignment

\* lines 852, 1024, 1050: bytes that pad the end of the attributes to the uniform alignment
AttributePaddingSize(attribute_offset, attribute_size, alignment) ==
    (alignment - ((attribute_offset + attribute_size) % alignment)) % alignment

\* text_renderer.atlas_index_uniform_relative_offset: the atlas index follows the
\* 12-float text matrix at the next uniform-alignment boundary
AtlasIndexUniformRelativeOffset(alignment) ==
    TextMatrixUniformSize + ((alignment - (TextMatrixUniformSize % alignment)) % alignment)

NewMesh(g, m) ==
    [indices |-> g[1], attributes |-> g[2], material |-> m,
     index_offset |-> 0, attribute_offset |-> 0, uniform_offset |-> 0]

NewText(g, f) ==
    [indices |-> g[1], attributes |-> g[2], font_found |-> f,
     index_offset |-> 0, attribute_offset |-> 0,
     matrix_uniform_offset |-> 0, atlas_index_uniform_offset |-> 0]

\* one iteration of the mesh loop: the mesh with its cached offsets, and the next cursor
PackMesh(mesh, offset, alignment) ==
    LET index_size == U16Size * mesh.indices
        index_padding_size == IndexPaddingSize(offset, index_size)
        attribute_offset == offset + index_size + index_padding_size
        attribute_size == F32Size * mesh.attributes
        attribute_padding_size == AttributePaddingSize(attribute_offset, attribute_size, alignment)
        uniform_offset == attribute_offset + attribute_size + attribute_padding_size
        uniform_size == MeshUniformSize
    IN [obj |-> [mesh EXCEPT !.index_offset = offset,
                             !.attribute_offset = attribute_offset,
                             !.uniform_offset = uniform_offset],
        offset |-> uniform_offset + uniform_size]

\* one iteration of the text loop
PackText(text, offset, alignment) ==
    LET index_size == U16Size * text.indices
        index_padding_size == IndexPaddingSize(offset, index_size)
        attribute_offset == offset + index_size + index_padding_size
        attribute_size == F32Size * text.attributes
        attribute_padding_size == AttributePaddingSize(attribute_offset, attribute_size, alignment)
        matrix_uniform_offset == attribute_offset + attribute_size + attribute_padding_size
        atlas_index_uniform_offset == matrix_uniform_offset + AtlasIndexUniformRelativeOffset(alignment)
        atlas_index_uniform_size == U32Size
    IN [obj |-> [text EXCEPT !.index_offset = offset,
                             !.attribute_offset = attribute_offset,
                             !.matrix_uniform_offset = matrix_uniform_offset,
                             !.atlas_index_uniform_offset = atlas_index_uniform_offset],
        offset |-> atlas_index_uniform_offset + atlas_index_uniform_size]

RECURSIVE PackMeshes(_, _, _)
PackMeshes(meshes, offset, alignment) ==
    IF meshes = <<>> THEN [objs |-> <<>>, offset |-> offset]
    ELSE LET first == PackMesh(Head(meshes), offset, alignment)
             rest == PackMeshes(Tail(meshes), first.offset, alignment)
         IN [objs |-> <<first.obj>> \o rest.objs, offset |-> rest.offset]

\* the text loop; fonts.get(..).expect(..) panics at the first text whose font is not found,
\* and the text objects from that one on are left as they were
RECURSIVE PackTexts(_, _, _)
PackTexts(texts, offset, alignment) ==
    IF texts = <<>> THEN [objs |-> <<>>, offset |-> offset, panicked |-> FALSE]
    ELSE IF ~Head(texts).font_found THEN [objs |-> texts, offset |-> offset, panicked |-> TRUE]
    ELSE LET first == PackText(Head(texts), offset, alignment)
             rest == PackTexts(Tail(texts), first.offset, alignment)
         IN [objs |-> <<first.obj>> \o rest.objs, offset |-> rest.offset,
             panicked |-> rest.panicked]

\* the two loops of render: meshes from the frame header on, then text
PackScene(s, alignment) ==
    LET m == PackMeshes(s.meshes, FRAME_DATA_MEMORY_SIZE, alignment)
        t == PackTexts(s.text, m.offset, alignment)
    IN [scene |-> [s EXCEPT !.meshes = m.objs, !.text = t.objs], offset |-> t.offset,
        panicked |-> t.panicked]

(* ---------------- static mesh layout (submit_static_meshes, lines 841-861) ------------- *)
\* a mesh handed to submit_static_meshes
NewStaticMesh(g, m) == [indices |-> g[1], attributes |-> g[2], material |-> m]

\* faulty variant: the cursor is advanced without the size of the transform uniform
PackStaticMeshUniformNotCounted(mesh, mesh_offset, alignment) ==
    LET index_size == U16Size * mesh.indices
        index_padding_size == IndexPaddingSize(mesh_offset, index_size)
        attribute_offset == mesh_offset + index_size + index_padding_size
        attribute_size == F32Size * mesh.attributes
        attribute_padding_size == AttributePaddingSize(attribute_offset, attribute_size, alignment)
        uniform_offset == attribute_offset + attribute_size + attribute_padding_size
    IN [info |-> [index_offset |-> mesh_offset, attribute_offset |-> attribute_offset,
                  uniform_offset |-> uniform_offset, index_count |-> mesh.indices,
                  material |-> mesh.material],
        offset |-> mesh_offset + uniform_offset]

\* one iteration of the loop of lines 846-858: the tuple pushed to render_info, and
\* mesh_offset after `mesh_offset += uniform_offset + uniform_size`
PackStaticMesh(mesh, mesh_offset, alignment) ==
    LET index_size == U16Size * mesh.indices
        index_padding_size == IndexPaddingSize(mesh_offset, index_size)
        attribute_offset == mesh_offset + index_size + index_padding_size
        attribute_size == F32Size * mesh.attributes
        attribute_padding_size == AttributePaddingSize(attribute_offset, attribute_size, alignment)
        uniform_offset == attribute_offset + attribute_size + attribute_padding_size
        uniform_size == 16 * F32Size
    IN [info |-> [index_offset |-> mesh_offset, attribute_offset |-> attribute_offset,
                  uniform_offset |-> uniform_offset, index_count |-> mesh.indices,
                  material |-> mesh.material],
        offset |-> mesh_offset + (uniform_offset + uniform_size)]

\* the loop: the tuples are pushed after those render_info holds
RECURSIVE PackStaticMeshes(_, _, _, _)
PackStaticMeshes(meshes, render_info, mesh_offset, alignment) ==
    IF meshes = <<>> THEN [render_info |-> render_info, offset |-> mesh_offset]
    ELSE LET first == PackStaticMesh(Head(meshes), mesh_offset, alignment)
         IN PackStaticMeshes(Tail(meshes), Append(render_info, first.info),
                             first.offset, alignment)

\* faulty variant: the table is not cleared, the tuples of the call follow the old ones
ClearRenderInfoKeeps(render_info) == render_info

\* line 843: render_info.clear()
ClearRenderInfo(render_info) == <<>>

\* lines 841-861: the render-info table and the size of the staging buffer
StaticLayout(meshes, render_info, alignment) ==
    PackStaticMeshes(meshes, ClearRenderInfo(render_info), 0, alignment)

(* ---------------- descriptor sets ---------------- *)
\* a descriptor that was allocated and never written
Unwritten == [buffer |-> NullHandle, offset |-> 0, range |-> 0]

\* faulty variant: the text matrix binding written with the range of a mesh matrix
UpdateInFlightFrameDescriptorSetsMeshRange(buffer) ==
    [frame_data |-> <<[buffer |-> buffer, offset |-> 0, range |-> FRAME_DATA_MEMORY_SIZE]>>,
     mesh_data  |-> <<[buffer |-> buffer, offset |-> 0, range |-> 16 * F32Size]>>,
     text_data  |-> <<[buffer |-> buffer, offset |-> 0, range |-> 16 * F32Size],
                      [buffer |-> buffer, offset |-> 0, range |-> U32Size]>>]

\* Renderer::update_in_flight_frame_descriptor_sets: the four writes, by set and binding
\* (binding b of a set is element b + 1)
UpdateInFlightFrameDescriptorSets(buffer) ==
    [frame_data |-> <<[buffer |-> buffer, offset |-> 0, range |-> FRAME_DATA_MEMORY_SIZE]>>,
     mesh_data  |-> <<[buffer |-> buffer, offset |-> 0, range |-> 16 * F32Size]>>,
     text_data  |-> <<[buffer |-> buffer, offset |-> 0, range |-> 12 * F32Size],
                      [buffer |-> buffer, offset |-> 0, range |-> U32Size]>>]

\* Renderer::create_in_flight_frames: fence created signaled, buffer of the frame-header
\* size, descriptor sets allocated
CreateInFlightFrame(i) ==
    [fence |-> FenceOf(i),
     buffer |-> BufferNew(i + 1, FRAME_DATA_MEMORY_SIZE),
     descriptor_sets |-> [frame_data |-> <<Unwritten>>,
                          mesh_data  |-> <<Unwritten>>,
                          text_data  |-> <<Unwritten, Unwritten>>]]

\* faulty variant: every per-image record is made with a fence object of its own
CreateSwapchainFramesWithOwnFences ==
    [i \in Images |-> [fence |-> IN_FLIGHT_FRAMES_COUNT + 1 + i]]

\* Renderer::create_swapchain: every per-image record starts with a null fence
CreateSwapchainFrames == [i \in Images |-> [fence |-> NullFence]]

\* lines 226-228: the swapchain is asked for one image more than the surface's minimum; on
\* a surface whose minimum is NumImages images it has these
SurfaceImages == 0 .. NumImages

\* Renderer::create_swapchain on such a surface
CreateSurfaceSwapchainFrames == [i \in SurfaceImages |-> [fence |-> NullFence]]

\* the buffers a descriptor set of the frame refers to
DescriptorBuffers(in_flight_frame) ==
    LET d == in_flight_frame.descriptor_sets
    IN {d.frame_data[1].buffer, d.mesh_data[1].buffer,
        d.text_data[1].buffer, d.text_data[2].buffer} \ {NullHandle}

\* every buffer handle that is allocated or still referenced
LiveHandles(frames) ==
    UNION {{frames[i].buffer.handle} \cup DescriptorBuffers(frames[i]) : i \in DOMAIN frames}

(* ---------------- scenes a caller can hand to render ---------------- *)
SeqsUpTo(S, n) == UNION {[1 .. k -> S] : k \in 0 .. n}

Scenes(mesh_kinds, text_kinds, max_meshes, max_texts) ==
    [meshes : SeqsUpTo(mesh_kinds, max_meshes),
     text : SeqsUpTo(text_kinds, max_texts),
     point_lights : PointLightCounts]

\* the scenes of the frame-layout specification: both geometries and materials, up to
\* the bound of objects, every text with a font that is found
FrameScenes ==
    {s \in Scenes({NewMesh(Triangle, "Basic"), NewMesh(Plane, "Lambert")},
                  {NewText(GlyphQuad, TRUE)}, MaxObjects, MaxObjects)
        : Len(s.meshes) + Len(s.text) <= MaxObjects}

\* the scenes of the synchronisation specification: nothing, a mesh, a text or both, the
\* text with or without its font
SyncScenes ==
    Scenes({NewMesh(Triangle, "Basic")}, {NewText(GlyphQuad, f) : f \in BOOLEAN}, 1, 1)

EmptyScene == [meshes |-> <<>>, text |-> <<>>, point_lights |-> 0]

(* ---------------- results reported by the presentation layer ---------------- *)
AcquireResults == {"success", "suboptimal", "out_of_date", "error"}
PresentResults == {"success", "suboptimal", "out_of_date", "error"}

\* faulty variant: an out-of-date acquisition is not told apart from a successful one
AcquireOutcomeIgnoringOutOfDate(result) ==
    CASE result \in {"success", "suboptimal", "out_of_date"} -> "continue"
      [] OTHER -> "panic"

\* faulty variant: an out-of-date acquisition falls into the arm of the other errors
AcquireOutcomeOutOfDatePanics(result) ==
    CASE result \in {"success", "suboptimal"} -> "continue"
      [] OTHER -> "panic"

\* match on the result of acquire_next_image (render, lines 994-998)
AcquireOutcome(result) ==
    CASE result = "out_of_date" -> "return_true"
      [] result \in {"success", "suboptimal"} -> "continue"
      [] OTHER -> "panic"

\* faulty variant: Ok(true) of queue_present is not matched, only the out-of-date error is
SurfaceChangedSuboptimalIgnored(result) ==
    CASE result = "out_of_date" -> "true"
      [] result \in {"success", "suboptimal"} -> "false"
      [] OTHER -> "panic"

\* match on the result of queue_present (render, lines 1346-1350)
SurfaceChanged(result) ==
    CASE result \in {"suboptimal", "out_of_date"} -> "true"
      [] result = "success" -> "false"
      [] OTHER -> "panic"

(* ---------------- render: waits ---------------- *)
\* faulty variant: the slot's fence is not waited on
InFlightFrameAvailableNoWait(in_flight_frame) == TRUE

\* lines 982-984: wait for this in flight frame to become available
InFlightFrameAvailable(in_flight_frame) == WaitForFences(in_flight_frame.fence)

\* faulty variant: the image's fence is not waited on
SwapchainFrameAvailableNoWait(swapchain_frame) == TRUE

\* lines 1003-1007: wait for the swapchain frame to become available
SwapchainFrameAvailable(swapchain_frame) ==
    swapchain_frame.fence # NullFence => WaitForFences(swapchain_frame.fence)

(* ---------------- render: dynamic buffer ---------------- *)
\* faulty variant: the buffer is reallocated whenever the required size differs from the capacity
NeedsReallocateOnAnyChange(size, buffer) == size # buffer.capacity

\* line 1067
NeedsReallocate(size, buffer) == size > buffer.capacity

\* lines 1064-1076: grow the buffer and rewrite the descriptor sets when the frame needs more
GrowInFlightFrame(in_flight_frame, size, live) ==
    IF NeedsReallocate(size, in_flight_frame.buffer)
    THEN LET buffer == BufferReallocate(in_flight_frame.buffer, size, live)
         IN [in_flight_frame EXCEPT !.buffer = buffer,
                                    !.descriptor_sets = UpdateInFlightFrameDescriptorSets(buffer.handle)]
    ELSE in_flight_frame

\* line 1079: the buffer that is mapped for the copies is the frame's buffer after the growth
MappedBuffer(before, grown) == grown.buffer

\* a write of size bytes at offset through buffer_ptr, with the buffer it goes to
Write(kind, offset, size, buffer) ==
    [kind |-> kind, offset |-> offset, size |-> size,
     handle |-> buffer.handle, capacity |-> buffer.capacity]

\* lines 1081-1102: projection matrix, inverse view matrix, ambient light
FrameHeaderWrites(buffer) ==
    {Write("projection", 0, 16 * F32Size, buffer),
     Write("inverse_view", 16 * F32Size, 16 * F32Size, buffer),
     Write("ambient_light", 32 * F32Size, 3 * F32Size, buffer)}

\* lines 1104-1121: position and colour of every point light of the scene
PointLightWrites(point_lights, buffer) ==
    LET position_base_offest == 36 * F32Size
        color_base_offest == 40 * F32Size
        stride == 8 * F32Size
    IN UNION {{Write("light_position", position_base_offest + stride * k, 3 * F32Size, buffer),
               Write("light_color", color_base_offest + stride * k, 3 * F32Size, buffer)}
              : k \in 0 .. point_lights - 1}

\* faulty variant: the assertion rejects the maximum itself
PointLightAssertStrict(point_light_count) == point_light_count < MAX_POINT_LIGHTS

\* line 1123
PointLightAssert(point_light_count) == point_light_count <= MAX_POINT_LIGHTS

\* lines 1125-1128
PointLightCountWrite(buffer) == {Write("light_count", 35 * F32Size, U32Size, buffer)}

\* lines 1179-1191: indices, attributes and matrix of every dynamic mesh
MeshWrites(meshes, buffer) ==
    UNION {{Write("mesh_indices", meshes[k].index_offset, U16Size * meshes[k].indices, buffer),
            Write("mesh_attributes", meshes[k].attribute_offset, F32Size * meshes[k].attributes, buffer),
            Write("mesh_matrix", meshes[k].uniform_offset, 16 * F32Size, buffer)}
           : k \in DOMAIN meshes}

\* lines 1211-1228: indices, attributes, padded 3x4 matrix and atlas index of every text
TextWrites(texts, buffer) ==
    UNION {{Write("text_indices", texts[k].index_offset, U16Size * texts[k].indices, buffer),
            Write("text_attributes", texts[k].attribute_offset, F32Size * texts[k].attributes, buffer),
            Write("text_matrix", texts[k].matrix_uniform_offset, 12 * F32Size, buffer),
            Write("text_atlas_index", texts[k].atlas_index_uniform_offset, U32Size, buffer)}
           : k \in DOMAIN texts}

\* the frame once the offsets are computed and the buffer is sized: the copies of lines
\* 1078-1229 into the mapped buffer, up to the point where the call panics or has recorded
\* its command buffers
FrameCopies(packed, before, grown, buffer) ==
    IF ~PointLightAssert(packed.scene.point_lights)
    THEN [outcome |-> "too_many_point_lights", scene |-> packed.scene,
          buffer_size |-> packed.offset, before |-> before, in_flight_frame |-> grown,
          writes |-> FrameHeaderWrites(buffer)
                     \cup PointLightWrites(packed.scene.point_lights, buffer)]
    ELSE [outcome |-> "recorded", scene |-> packed.scene,
          buffer_size |-> packed.offset, before |-> before, in_flight_frame |-> grown,
          writes |-> FrameHeaderWrites(buffer)
                     \cup PointLightWrites(packed.scene.point_lights, buffer)
                     \cup PointLightCountWrite(buffer)
                     \cup MeshWrites(packed.scene.meshes, buffer)
                     \cup TextWrites(packed.scene.text, buffer)]

\* lines 1064-1079: size the buffer for the packed scene, then map it
\* (x \in {e} binds x to the value of e, computed once)
FrameSized(packed, before, grown) ==
    CHOOSE r \in {FrameCopies(packed, before, grown, buffer)
                     : buffer \in {MappedBuffer(before, grown)}} : TRUE

\* lines 1011-1062 done: a missing font has panicked, otherwise the buffer is sized
FramePacked(packed, before, live) ==
    IF packed.panicked
    THEN [outcome |-> "font_not_found", scene |-> packed.scene, buffer_size |-> 0,
          before |-> before, in_flight_frame |-> before, writes |-> {}]
    ELSE CHOOSE r \in {FrameSized(packed, before, grown)
                          : grown \in {GrowInFlightFrame(before, packed.offset, live)}} : TRUE

\* render, lines 1011-1281, for the scene sc on the slot in_flight_frame
FrameResult(sc, in_flight_frame, alignment, live) ==
    CHOOSE r \in {FramePacked(packed, in_flight_frame, live)
                     : packed \in {PackScene(sc, alignment)}} : TRUE

(* ---------------- submit_static_meshes: buffer, descriptor set, copy ---------------- *)
\* Buffer::null of create_mesh_rendering_pipeline_resources, lines 463-467
BufferNull == [handle |-> NullHandle, capacity |-> 0]

\* the mesh lists a caller can hand to submit_static_meshes
StaticMeshLists ==
    SeqsUpTo({NewStaticMesh(Triangle, "Basic"), NewStaticMesh(Plane, "Lambert")}, MaxObjects)

\* faulty variant: the buffer is reallocated also when the size equals the capacity
StaticNeedsReallocateOnEqual(size, buffer) == size >= buffer.capacity

\* line 907
StaticNeedsReallocate(size, buffer) == size > buffer.capacity

\* lines 910-925: binding 0 of static_mesh_data_descriptor_set
UpdateStaticMeshDataDescriptorSet(buffer) ==
    <<[buffer |-> buffer, offset |-> 0, range |-> 16 * F32Size]>>

\* faulty variant: the buffer is reallocated and the descriptor set is left as it was
GrowStaticMeshBufferKeepsBinding(buffer, descriptor_set, size, live) ==
    IF StaticNeedsReallocate(size, buffer)
    THEN [buffer |-> BufferReallocate(buffer, size, live),
          descriptor_set |-> descriptor_set,
          reallocated |-> TRUE]
    ELSE [buffer |-> buffer, descriptor_set |-> descriptor_set, reallocated |-> FALSE]

\* lines 904-926: grow the static buffer and rewrite its descriptor set when needed
GrowStaticMeshBuffer(buffer, descriptor_set, size, live) ==
    IF StaticNeedsReallocate(size, buffer)
    THEN LET grown == BufferReallocate(buffer, size, live)
         IN [buffer |-> grown,
             descriptor_set |-> UpdateStaticMeshDataDescriptorSet(grown.handle),
             reallocated |-> TRUE]
    ELSE [buffer |-> buffer, descriptor_set |-> descriptor_set, reallocated |-> FALSE]

\* lines 939-946: cmd_copy_buffer of buffer_size bytes from the staging buffer to the
\* static buffer as it is after the growth
StaticCopy(size, buffer) ==
    [dst |-> buffer.handle, dst_capacity |-> buffer.capacity, size |-> size]

\* submit_static_meshes, lines 841-947, for meshes on the renderer's static resources
StaticSubmitResult(meshes, buffer, descriptor_set, render_info, alignment, live) ==
    CHOOSE r \in
      UNION {{[meshes |-> meshes, render_info |-> packed.render_info,
               buffer_size |-> packed.offset, before |-> buffer,
               buffer |-> grown.buffer, descriptor_set |-> grown.descriptor_set,
               reallocated |-> grown.reallocated,
               copy |-> StaticCopy(packed.offset, grown.buffer)]
              : grown \in {GrowStaticMeshBuffer(buffer, descriptor_set, packed.offset, live)}}
             : packed \in {StaticLayout(meshes, render_info, alignment)}} : TRUE

\* lines 863-870: Buffer::new and map_memory for the staging buffer. Creating a buffer of
\* size 0 is outside what the device promises: the device may report an error, on which
\* unwrap panics, or hand out a buffer; any other size is created
StagingBufferOutcomes(buffer_size) ==
    IF buffer_size = 0 THEN {"panic", "created"} ELSE {"created"}

\* the handles the static resources hold or refer to
StaticHandles(buffer, descriptor_set) ==
    {buffer.handle, descriptor_set[1].buffer} \ {NullHandle}

\* no submit_static_meshes call was made
NoStaticCall ==
    [called |-> FALSE, copied |-> FALSE,
     meshes |-> <<>>, buffer_size |-> 0, before |-> BufferNull,
     reallocated |-> FALSE, copy |-> StaticCopy(0, BufferNull),
     render_info_before |-> <<>>,
     pending_at_entry |-> FALSE, pending_at_copy |-> FALSE, pending_at_return |-> FALSE,
     previous |-> [called |-> FALSE, meshes |-> <<>>, buffer_size |-> 0]]

\* the call that gave the result r, after the call before it
StaticCallOf(r, render_info_before, before_call) ==
    [called |-> TRUE, copied |-> TRUE,
     meshes |-> r.meshes, buffer_size |-> r.buffer_size,
     before |-> r.before, reallocated |-> r.reallocated, copy |-> r.copy,
     render_info_before |-> render_info_before,
     pending_at_entry |-> FALSE, pending_at_copy |-> FALSE, pending_at_return |-> FALSE,
     previous |-> [called |-> before_call.called, meshes |-> before_call.meshes,
                   buffer_size |-> before_call.buffer_size]]

(* ---------------- state machine ---------------- *)
\* draw calls recorded in no secondary command buffer
NoDraws == [basic |-> 0, lambert |-> 0, text |-> 0]

\* lines 1172-1176, 1206, 1262: the draws that go to the secondary command buffer of material
MaterialDraws(objects, material) ==
    Cardinality({k \in DOMAIN objects : objects[k].material = material})

\* faulty variant: the text buffer gets a draw also when the scene has no text
FrameDrawsTextAlways(sc, render_info) ==
    [basic |-> MaterialDraws(sc.meshes, "Basic") + MaterialDraws(render_info, "Basic"),
     lambert |-> MaterialDraws(sc.meshes, "Lambert") + MaterialDraws(render_info, "Lambert"),
     text |-> IF Len(sc.text) = 0 THEN 1 ELSE Len(sc.text)]

\* lines 1179-1265: one cmd_draw_indexed per dynamic mesh and per static render-info entry
\* in the buffer of its material, one per text run in the text buffer
FrameDraws(sc, render_info) ==
    [basic |-> MaterialDraws(sc.meshes, "Basic") + MaterialDraws(render_info, "Basic"),
     lambert |-> MaterialDraws(sc.meshes, "Lambert") + MaterialDraws(render_info, "Lambert"),
     text |-> Len(sc.text)]

\* no render call is running
NoCall == [frame |-> 0, point_lights |-> 0, meshes |-> 0, text |-> 0,
           buffer_size |-> 0, reallocated |-> FALSE, draws |-> NoDraws,
           text_matrices |-> <<>>,
           slot_pending |-> FALSE, image_pending |-> FALSE, image_waited |-> FALSE,
           packed |-> FALSE, written |-> FALSE, recorded |-> FALSE,
           submitted |-> FALSE, presented |-> FALSE]

\* a render call on slot i that laid out the scene sc with that frame outcome, before its
\* submission: packed (line 1076 reached), written (the copies of line 1084 on started),
\* recorded (line 1281 reached)
CallOf(i, sc, outcome) ==
    [NoCall EXCEPT !.frame = i,
                   !.point_lights = sc.point_lights,
                   !.meshes = Len(sc.meshes),
                   !.text = Len(sc.text),
                   !.packed = outcome # "font_not_found",
                   !.written = outcome # "font_not_found",
                   !.recorded = outcome = "recorded"]

NoFrame == [outcome |-> "none", scene |-> EmptyScene, buffer_size |-> 0,
            before |-> CreateInFlightFrame(0), in_flight_frame |-> CreateInFlightFrame(0),
            writes |-> {}]

\* no object list is laid out
NoLayout == [objects |-> <<>>, packed |-> "none", scene |-> EmptyScene, render_info |-> <<>>,
             buffer_size |-> 0, staging_capacity |-> 0, copy_size |-> 0]

\* lines 861-867: the staging buffer is made with buffer_size as its capacity
StagingBuffer(buffer_size) == BufferNew(AllocateHandle({}), buffer_size)

(* ---------------- materials and secondary command buffers ---------------- *)
\* mesh.rs, lines 4-8
Material == {"Basic", "Normal", "Lambert"}

\* lines 1172-1176: the match has an arm for Basic and an arm for Lambert and no other;
\* a material without an arm has no buffer to go to
FindMeshRenderingSecondaryCommandBufferFromMaterial(m) ==
    CASE m = "Basic" -> "basic_secondary_command_buffer"
      [] m = "Lambert" -> "lambert_secondary_command_buffer"
      [] OTHER -> "no_arm"

\* lines 1179-1265: the draw of every dynamic mesh, text run and static render-info entry,
\* with the secondary command buffer its cmd_draw_indexed is recorded into
RecordedDraws(meshes, texts, render_info) ==
    {[source |-> "dynamic", k |-> k, material |-> meshes[k],
      buffer |-> FindMeshRenderingSecondaryCommandBufferFromMaterial(meshes[k])]
        : k \in DOMAIN meshes}
    \cup {[source |-> "text", k |-> k, material |-> "none",
           buffer |-> "text_secondary_command_buffer"] : k \in 1 .. texts}
    \cup {[source |-> "static", k |-> k, material |-> render_info[k],
           buffer |-> FindMeshRenderingSecondaryCommandBufferFromMaterial(render_info[k])]
        : k \in DOMAIN render_info}

\* nothing is recorded
NoRecording == [meshes |-> <<>>, texts |-> 0, render_info |-> <<>>,
                recorded |-> FALSE, draws |-> {}]

(* ---------------- ComponentList (component/component_list.rs) ---------------- *)
Entities == 0 .. MaxEntities - 1
ComponentValues == {"red", "blue"}

\* Option::None in entity_to_index_map: no index
None == -1

\* an entity the caller has given no component
NoComponent == "none"

\* no call was made on the list
NoListCall == [op |-> "none", entity |-> 0, had |-> FALSE, index |-> 0, len |-> 0,
               outcome |-> "none", result |-> "none",
               before |-> [components |-> <<>>, entity_to_index_map |-> <<>>]]

\* the call op on entity, as it finds the list
ListCall(list, op, entity) ==
    [NoListCall EXCEPT
        !.op = op, !.entity = entity, !.had = list.entity_to_index_map[entity] # None,
        !.len = Len(list.components),
        !.before = [components |-> list.components,
                    entity_to_index_map |-> list.entity_to_index_map]]

\* ComponentList::new, lines 9-14; owned is what the caller has added and not removed
ComponentListNew ==
    [components |-> <<>>,
     entity_to_index_map |-> [e \in Entities |-> None],
     owned |-> [e \in Entities |-> NoComponent],
     last |-> NoListCall]

\* faulty variant: Vec::remove, the elements after index move down by one
SwapRemoveShifting(components, index) ==
    [k \in 1 .. Len(components) - 1 |->
        IF k <= index THEN components[k] ELSE components[k + 1]]

\* Vec::swap_remove(index): the last element takes the place of the removed one
\* (the vector is indexed from 0, the sequence from 1)
SwapRemove(components, index) ==
    [k \in 1 .. Len(components) - 1 |->
        IF k = index + 1 THEN components[Len(components)] ELSE components[k]]

\* components[index] of a vector: inside the vector or an index-out-of-bounds panic
InBounds(components, index) == index < Len(components)

\* borrow, lines 33-37
Borrow(list, entity) ==
    IF list.entity_to_index_map[entity] = None THEN "panic"
    ELSE IF ~InBounds(list.components, list.entity_to_index_map[entity]) THEN "panic"
    ELSE list.components[list.entity_to_index_map[entity] + 1][2]

\* borrow_mut, lines 39-43
BorrowMut(list, entity) ==
    IF list.entity_to_index_map[entity] = None THEN "panic"
    ELSE IF ~InBounds(list.components, list.entity_to_index_map[entity]) THEN "panic"
    ELSE list.components[list.entity_to_index_map[entity] + 1][2]

\* faulty variant: a missing component fails the call
TryBorrowAsserting(list, entity) ==
    IF list.entity_to_index_map[entity] = None THEN "panic"
    ELSE list.components[list.entity_to_index_map[entity] + 1][2]

\* try_borrow, lines 45-48: the ? operator returns None when the map has no index
TryBorrow(list, entity) ==
    IF list.entity_to_index_map[entity] = None THEN NoComponent
    ELSE IF ~InBounds(list.components, list.entity_to_index_map[entity]) THEN "panic"
    ELSE list.components[list.entity_to_index_map[entity] + 1][2]

\* try_borrow_mut, lines 50-53
TryBorrowMut(list, entity) ==
    IF list.entity_to_index_map[entity] = None THEN NoComponent
    ELSE IF ~InBounds(list.components, list.entity_to_index_map[entity]) THEN "panic"
    ELSE list.components[list.entity_to_index_map[entity] + 1][2]

\* one of the four borrowing calls: what it returns, or the panic
Borrowed(list, op, entity) ==
    LET result == CASE op = "borrow" -> Borrow(list, entity)
                    [] op = "borrow_mut" -> BorrowMut(list, entity)
                    [] op = "try_borrow" -> TryBorrow(list, entity)
                    [] OTHER -> TryBorrowMut(list, entity)
    IN [list EXCEPT !.last = [ListCall(list, op, entity) EXCEPT
                                 !.outcome = IF result = "panic" THEN "panic" ELSE "ok",
                                 !.result = result]]

\* add, lines 16-21
Add(list, entity, component) ==
    IF list.entity_to_index_map[entity] # None
    THEN [list EXCEPT !.last = [ListCall(list, "add", entity) EXCEPT
                                   !.outcome = "panic"]]
    ELSE [list EXCEPT
            !.components = Append(list.components, <<entity, component>>),
            !.entity_to_index_map[entity] = Len(list.components),
            !.owned[entity] = component,
            !.last = [ListCall(list, "add", entity) EXCEPT
                         !.index = Len(list.components), !.outcome = "ok"]]

\* remove, lines 23-31: the assertion, the map entry cleared, swap_remove, then the
\* element now at index is read and its entity mapped to index
Remove(list, entity) ==
    IF list.entity_to_index_map[entity] = None
    THEN [list EXCEPT !.last = [ListCall(list, "remove", entity) EXCEPT
                                   !.outcome = "panic"]]
    ELSE LET index == list.entity_to_index_map[entity]
             removed == SwapRemove(list.components, index)
             cleared == [list.entity_to_index_map EXCEPT ![entity] = None]
             call_made == [ListCall(list, "remove", entity) EXCEPT
                              !.index = index, !.outcome = "ok"]
         IN IF ~InBounds(removed, index)
            THEN [list EXCEPT !.components = removed,
                              !.entity_to_index_map = cleared,
                              !.owned[entity] = NoComponent,
                              !.last = [call_made EXCEPT !.outcome = "panic"]]
            ELSE [list EXCEPT !.components = removed,
                              !.entity_to_index_map =
                                   [cleared EXCEPT ![removed[index + 1][1]] = index],
                              !.owned[entity] = NoComponent,
                              !.last = call_made]

(* ---------------- the UI projection (renderer.rs, lines 126-130, 828-829) -------------- *)
\* the f32 quotient a / b, kept as the pair of its operands
F32Div(a, b) == <<a, b>>

\* an f32 literal
F32(a) == <<a, 1>>

\* the framebuffer size the renderer is constructed with
InitialFramebufferSize == <<800, 600>>

\* the sizes a resize event reports
FramebufferSizes == {<<800, 600>>, <<1024, 768>>, <<600, 800>>}

\* Renderer::new, lines 126-130
UiProjectionNew(framebuffer_width, framebuffer_height) ==
    <<<<F32Div(2, framebuffer_width), F32(0), F32(-1)>>,
      <<F32(0), F32Div(2, framebuffer_height), F32(-1)>>,
      <<F32(0), F32(0), F32(1)>>>>

\* faulty variant: width and height are taken for each other
UiProjectionResizedSwapped(matrix, framebuffer_width, framebuffer_height) ==
    [matrix EXCEPT ![1][1] = F32Div(2, framebuffer_height),
                   ![2][2] = F32Div(2, framebuffer_width)]

\* handle_resize, lines 828-829: elements[0][0] and elements[1][1] are assigned
UiProjectionResized(matrix, framebuffer_width, framebuffer_height) ==
    [matrix EXCEPT ![1][1] = F32Div(2, framebuffer_width),
                   ![2][2] = F32Div(2, framebuffer_height)]

\* lines 1221-1223: temp_matrix is set to the UI projection and multiplied by the text's
\* matrix, the product is padded and copied; the product is kept as its two factors
TextMatrix(projection, transform) == [projection |-> projection, transform |-> transform]

\* no text matrix is packed
NoTextMatrices == <<>>

\* no handle_resize call has just run; the swapchain has the size it was created with
NoResize == [pending_at_destroy |-> FALSE, destroyed |-> {}, created |-> {},
             width |-> InitialFramebufferSize[1], height |-> InitialFramebufferSize[2]]

(* ---------------- the device side of a frame (renderer.rs, lines 987-991, 1319-1344) ----- *)
\* no image
NoImage == NumImages + 1

\* no batch was submitted for a slot
NoBatch == [phase |-> "none", image |-> NoImage, wait |-> 0, signal |-> 0,
            started_available |-> FALSE, color_available |-> FALSE]

\* no presentation was performed
NoPresent == [slot |-> IN_FLIGHT_FRAMES_COUNT, image |-> NoImage, rendered |-> FALSE]

\* the device after Renderer::new: the semaphores of create_in_flight_frames (lines 692-693)
\* are unsignaled, no image is handed out, the graphics queue is empty
NoGpu == [image_available |-> [s \in Slots |-> FALSE],
          render_finished |-> [s \in Slots |-> FALSE],
          acquiring |-> [s \in Slots |-> NoImage],
          image_ready |-> [i \in SurfaceImages |-> FALSE],
          image_rendered |-> [i \in SurfaceImages |-> FALSE],
          queue |-> <<>>,
          batches |-> [s \in Slots |-> NoBatch],
          presented |-> NoPresent]

\* lines 987-991: acquire_next_image is given the slot's image_available semaphore, which
\* is signaled once the image i can be written; nothing of the new frame is in the image
AcquireNextImage(g, slot, i) == [g EXCEPT !.acquiring[slot] = i, !.image_rendered[i] = FALSE]

\* faulty variant: the batch waits on the other slot's semaphore
WaitSemaphoreOfOtherSlot(slot) == IN_FLIGHT_FRAMES_COUNT - 1 - slot

\* line 1319: the batch waits on the slot's image_available
WaitSemaphore(slot) == slot

\* line 1322: the batch signals the slot's render_finished, which the presentation waits
\* on (line 1340)
SignalSemaphore(slot) == slot

\* lines 1319-1344: queue_submit of the batch that renders to image i, then queue_present
\* of that image, both on the graphics queue
QueueSubmitAndPresent(g, slot, i) ==
    [g EXCEPT !.batches[slot] = [NoBatch EXCEPT !.phase = "queued", !.image = i,
                                                !.wait = WaitSemaphore(slot),
                                                !.signal = SignalSemaphore(slot)],
              !.queue = g.queue \o <<[kind |-> "batch", slot |-> slot, image |-> i,
                                       wait |-> WaitSemaphore(slot)],
                                      [kind |-> "present", slot |-> slot, image |-> i,
                                       wait |-> SignalSemaphore(slot)]>>]

\* Renderer::new with the swapchain that create_swapchain made
RendererNewOn(frames) ==
    /\ in_flight_frames = [i \in Slots |-> CreateInFlightFrame(i)]
    /\ current_in_flight_frame = 0
    /\ swapchain_frames = frames
    /\ fence_signaled = [f \in {FenceOf(i) : i \in Slots} |-> TRUE]
    /\ submissions = {}
    /\ pc = "idle"
    /\ image_index = 0
    /\ acquire_result = "none"
    /\ present_result = "none"
    /\ call = NoCall
    /\ ret = "none"
    /\ scene = EmptyScene
    /\ frame = NoFrame
    /\ static_mesh_buffer = BufferNull
    /\ static_mesh_render_info = <<>>
    /\ static_mesh_data_descriptor_set = <<Unwritten>>
    /\ static_call = NoStaticCall
    /\ submitted_slots = <<>>
    /\ resize = NoResize
    /\ gpu = NoGpu
    /\ ui_projection_matrix = UiProjectionNew(InitialFramebufferSize[1], InitialFramebufferSize[2])
    /\ component_list = ComponentListNew

\* Renderer::new
RendererNew == RendererNewOn(CreateSwapchainFrames)

\* no Buffer is looked at by itself
NoReallocation == [step |-> "idle", buffer |-> BufferNull, allocated |-> {},
                   capacity |-> 0, handle |-> NullHandle,
                   made |-> "null", usage |-> {}, properties |-> {},
                   created_with |-> [usage |-> {}, properties |-> {}],
                   allocation |-> [made |-> FALSE, size |-> 0, usage |-> {},
                                   properties |-> {}]]

(* ---------------- transforms and the matrices packed ---------------- *)
\* a position, rotation and scale, taken together
Poses == {"placed", "moved"}

\* Matrix3::compose, Matrix4::compose: the matrix of a position, rotation and scale
Compose(pose) == [composed_from |-> pose]

\* Matrix4::invert, line 1091
Invert(matrix) == [inverse_of |-> matrix]

\* faulty variant: the matrix is left as it is
UpdateMatrixKeeps(transform) == transform

\* Transform3D::update_matrix
UpdateMatrix(transform) == [transform EXCEPT !.matrix = Compose(transform.pose)]

\* the update_matrix of a text's transform
UpdateMatrix2D(transform) == [transform EXCEPT !.matrix = Compose(transform.pose)]

\* the transforms a caller can hand over: the matrix is the one of any pose
Transforms == [pose : Poses, matrix : {Compose(pose) : pose \in Poses}]

\* a mesh, a text or a camera: its transform and its auto-update flag
SceneObjects == [auto_update_matrix : BOOLEAN, transform : Transforms]

\* lines 1015-1018, 872-875, 1086-1088: update_matrix is called when the flag is set
AutoUpdate(object) ==
    IF object.auto_update_matrix
    THEN [object EXCEPT !.transform = UpdateMatrix(@)]
    ELSE object

\* lines 1035-1037, the same for a text
AutoUpdateText(object) ==
    IF object.auto_update_matrix
    THEN [object EXCEPT !.transform = UpdateMatrix2D(@)]
    ELSE object

\* what a call copied for one object: the bytes, and the object as the call found it
PackedMatrix(before, bytes) ==
    [auto_update_matrix |-> before.auto_update_matrix, pose |-> before.transform.pose,
     before |-> before.transform.matrix, bytes |-> bytes]

\* no scene, nothing packed
NoMatrices == [camera |-> [auto_update_matrix |-> FALSE,
                           transform |-> [pose |-> "placed", matrix |-> Compose("placed")]],
               meshes |-> <<>>, text |-> <<>>, called |-> "none",
               packed_camera |-> <<>>, packed_meshes |-> <<>>, packed_text |-> <<>>,
               packed_static |-> <<>>]

\* the renderer as constructed, nothing else going on
Constructed ==
    /\ RendererNew
    /\ layout = NoLayout
    /\ reallocation = NoReallocation
    /\ recording = NoRecording
    /\ matrices = NoMatrices

\* Renderer::new on a device whose uniform alignment is 64
Init ==
    /\ uniform_alignment = 64
    /\ Constructed

\* faulty variant: the fence is reset as soon as the wait is over
FenceResetAfterWait(signaled, fence) == [signaled EXCEPT ![fence] = FALSE]

\* wait_for_fences at the top of render leaves the fence signaled: reset_fences comes only
\* at line 1332, right before queue_submit
FenceAfterWait(signaled, fence) == signaled

\* render(scene), lines 972-998: wait for the slot's fence, acquire an image
\* (the upload of changed fonts, lines 973-977, is the text renderer's and precedes the frame)
RenderAcquireStep(results) ==
    /\ pc = "idle"
    /\ InFlightFrameAvailable(in_flight_frames[current_in_flight_frame])
    /\ fence_signaled' = FenceAfterWait(fence_signaled,
                                        in_flight_frames[current_in_flight_frame].fence)
    /\ \E result \in results :
        /\ acquire_result' = result
        /\ CASE AcquireOutcome(result) = "return_true" ->
                  /\ ret' = "true"
                  /\ pc' = "returned"
                  /\ UNCHANGED image_index
             [] AcquireOutcome(result) = "continue" ->
                  /\ \E i \in DOMAIN swapchain_frames : image_index' = i
                  /\ pc' = "acquired"
                  /\ UNCHANGED ret
             [] OTHER ->
                  /\ pc' = "panicked"
                  /\ UNCHANGED <<ret, image_index>>
    /\ UNCHANGED <<uniform_alignment, in_flight_frames, current_in_flight_frame,
                   swapchain_frames, submissions, present_result, call, scene, frame>>
    /\ UNCHANGED <<static_vars, layout, submitted_slots, resize, reallocation, component_list, recording, ui_projection_matrix, matrices>>

\* a render call up to the acquisition, the device left aside
RenderAcquireWith(results) == RenderAcquireStep(results) /\ UNCHANGED gpu

\* faulty variant: the slot index is left where it is
NextInFlightFrameStuck(i) == i

\* line 1352
NextInFlightFrame(i) == (i + 1) % IN_FLIGHT_FRAMES_COUNT

\* line 1333: queue_submit of the frame of slot i, after the submitted frames before it;
\* as many of them are remembered as there are slots
LastSubmitted(slots, i) ==
    IF Len(slots) < IN_FLIGHT_FRAMES_COUNT THEN Append(slots, i) ELSE Append(Tail(slots), i)

\* a render call up to the acquisition, on a presentation layer that can report anything
RenderAcquire == RenderAcquireWith(AcquireResults)

\* the call running in RenderFrame: whether a submission that uses its slot, or one that
\* targets its image, is still pending while the call works on them, and whether the image
\* had a last-submission fence to wait on
CallHere(sc, outcome) ==
    [CallOf(current_in_flight_frame, sc, outcome) EXCEPT
        !.slot_pending = \E sub \in submissions : sub.frame = current_in_flight_frame,
        !.image_pending = \E sub \in submissions : sub.image = image_index,
        !.image_waited = swapchain_frames[image_index].fence # NullFence]

\* the call running in RenderFrame with the frame result r: the size it computed (line
\* 1065), whether it reallocated the buffer (line 1067), the draws it recorded
CallFrame(sc, r) ==
    [CallHere(sc, r.outcome) EXCEPT
        !.buffer_size = r.buffer_size,
        !.reallocated = r.in_flight_frame.buffer # r.before.buffer,
        !.draws = IF r.outcome = "recorded"
                  THEN FrameDraws(r.scene, static_mesh_render_info) ELSE NoDraws,
        !.text_matrices = IF r.outcome = "recorded"
                          THEN [k \in DOMAIN r.scene.text |->
                                   TextMatrix(ui_projection_matrix, k)]
                          ELSE NoTextMatrices]

\* render, lines 1000-1354: wait for the image's last-submission fence and record the slot's
\* fence on the image; lay out and copy the frame; record, submit, present; advance the slot
RenderFrameStep(scenes, results) ==
    /\ pc = "acquired"
    /\ SwapchainFrameAvailable(swapchain_frames[image_index])
    /\ swapchain_frames' = [swapchain_frames EXCEPT ![image_index].fence =
                                in_flight_frames[current_in_flight_frame].fence]
    /\ \E sc \in scenes, result \in results :
         \E r \in {FrameResult(sc, in_flight_frames[current_in_flight_frame],
                               uniform_alignment, LiveHandles(in_flight_frames))} :
            /\ in_flight_frames' =
                   [in_flight_frames EXCEPT ![current_in_flight_frame] = r.in_flight_frame]
            /\ IF r.outcome # "recorded"
               THEN /\ pc' = "panicked"
                    /\ call' = CallFrame(sc, r)
                    /\ UNCHANGED <<fence_signaled, submissions, present_result,
                                   current_in_flight_frame, ret, submitted_slots>>
               ELSE /\ fence_signaled' =
                          [fence_signaled EXCEPT ![r.in_flight_frame.fence] = FALSE]
                    /\ submissions' = submissions \cup
                          {[frame |-> current_in_flight_frame, image |-> image_index,
                            fence |-> r.in_flight_frame.fence]}
                    /\ submitted_slots' = LastSubmitted(submitted_slots, current_in_flight_frame)
                    /\ present_result' = result
                    /\ call' = [CallFrame(sc, r) EXCEPT !.submitted = TRUE,
                                                        !.presented = TRUE]
                    /\ IF SurfaceChanged(result) = "panic"
                       THEN /\ pc' = "panicked"
                            /\ UNCHANGED <<current_in_flight_frame, ret>>
                       ELSE /\ current_in_flight_frame' =
                                  NextInFlightFrame(current_in_flight_frame)
                            /\ ret' = SurfaceChanged(result)
                            /\ pc' = "returned"
    /\ UNCHANGED <<uniform_alignment, image_index, acquire_result, scene, frame>>
    /\ UNCHANGED <<static_vars, layout, resize, reallocation, component_list, recording, ui_projection_matrix, matrices>>

\* the rest of a render call, the device left aside
RenderFrameWith(scenes, results) == RenderFrameStep(scenes, results) /\ UNCHANGED gpu

\* the rest of a render call, for any scene of the synchronisation specification and any
\* report of the presentation layer
RenderFrame == RenderFrameWith(SyncScenes, PresentResults)

\* the caller takes the value render returned; the locals of the call are gone
RenderReturn ==
    /\ pc = "returned"
    /\ pc' = "idle"
    /\ image_index' = 0
    /\ acquire_result' = "none"
    /\ present_result' = "none"
    /\ call' = NoCall
    /\ ret' = "none"
    /\ UNCHANGED <<uniform_alignment, in_flight_frames, current_in_flight_frame,
                   swapchain_frames, fence_signaled, submissions, scene, frame>>
    /\ UNCHANGED <<static_vars, layout, submitted_slots, resize, reallocation, component_list, recording, ui_projection_matrix, matrices, gpu>>

\* a batch submitted with the null fence signals nothing when it completes
SignalFence(signaled, fence) ==
    IF fence = NullFence THEN signaled ELSE [signaled EXCEPT ![fence] = TRUE]

\* the GPU finishes the submitted batch sub and signals its fence
GpuCompleteStep(sub) ==
    /\ sub \in submissions
    /\ submissions' = submissions \ {sub}
    /\ fence_signaled' = SignalFence(fence_signaled, sub.fence)
    /\ UNCHANGED <<uniform_alignment, in_flight_frames, current_in_flight_frame,
                   swapchain_frames, pc, image_index, acquire_result,
                   present_result, call, ret, scene, frame>>
    /\ UNCHANGED <<static_vars, layout, submitted_slots, resize, reallocation, component_list, recording, ui_projection_matrix, matrices>>

\* the same, the stages of the batch left aside
GpuCompleteOf(sub) == GpuCompleteStep(sub) /\ UNCHANGED gpu

\* the GPU finishes a submitted batch
GpuComplete == \E sub \in submissions : GpuCompleteOf(sub)

\* faulty variant: handle_resize goes on without waiting for the device
DeviceWaitIdleNoWait(pending) == TRUE

\* line 806: device_wait_idle returns when no submitted batch is pending
DeviceWaitIdle(pending) == pending = {}

\* lines 808-819: the pipelines, every frame's framebuffer and image view, the depth image
\* with its view and memory, and the swapchain are destroyed
DestroySwapchainResources ==
    {"pipelines", "framebuffers", "image_views", "depth_image", "swapchain"}

\* lines 822-826: create_swapchain (lines 213-372) makes the swapchain, the depth image,
\* and every frame's image view and framebuffer; create_pipelines makes the pipelines
CreateSwapchainResources ==
    {"swapchain", "depth_image", "image_views", "framebuffers", "pipelines"}

\* Renderer::handle_resize: device_wait_idle, then the swapchain and what depends on it
\* are destroyed and rebuilt
HandleResizeWith(sizes) ==
    /\ pc = "idle"
    /\ DeviceWaitIdle(submissions)
    /\ swapchain_frames' = CreateSwapchainFrames
    /\ \E size \in sizes :
          /\ resize' = [pending_at_destroy |-> submissions # {},
                        destroyed |-> DestroySwapchainResources,
                        created |-> CreateSwapchainResources,
                        width |-> size[1], height |-> size[2]]
          /\ ui_projection_matrix' = UiProjectionResized(ui_projection_matrix,
                                                         size[1], size[2])
    /\ pc' = "resized"
    /\ UNCHANGED <<uniform_alignment, in_flight_frames, current_in_flight_frame,
                   fence_signaled, submissions, image_index, acquire_result,
                   present_result, call, ret, scene, frame>>
    /\ UNCHANGED <<static_vars, layout, submitted_slots, reallocation, component_list,
                   recording, matrices, gpu>>

\* a resize event that reports the size the window already has
HandleResize == HandleResizeWith({InitialFramebufferSize})

\* handle_resize has returned to its caller
ResizeReturn ==
    /\ pc = "resized"
    /\ pc' = "idle"
    /\ resize' = [resize EXCEPT !.pending_at_destroy = FALSE, !.destroyed = {},
                                !.created = {}]
    /\ UNCHANGED <<uniform_alignment, in_flight_frames, current_in_flight_frame,
                   swapchain_frames, fence_signaled, submissions, image_index,
                   acquire_result, present_result, call, ret, scene, frame>>
    /\ UNCHANGED <<static_vars, layout, submitted_slots, reallocation, component_list, recording, ui_projection_matrix, matrices, gpu>>

Next ==
    \/ RenderAcquire
    \/ RenderFrame
    \/ RenderReturn
    \/ GpuComplete
    \/ HandleResize
    \/ ResizeReturn

Spec == Init /\ [][Next]_vars

(* ---------------- the frames one slot lays out, one render call after another ------------ *)
\* Renderer::new on any device
InitFrame ==
    /\ uniform_alignment \in UniformAlignments
    /\ Constructed

\* a render call that lands on slot 0 once the GPU is done with the slot's previous frame,
\* lines 1011-1281: the scene as passed, and the frame laid out from it
FrameRender ==
    /\ pc = "idle"
    /\ \E sc \in FrameScenes :
         \E r \in {FrameResult(sc, in_flight_frames[current_in_flight_frame],
                               uniform_alignment, LiveHandles(in_flight_frames))} :
            /\ scene' = sc
            /\ frame' = r
            /\ in_flight_frames' =
                   [in_flight_frames EXCEPT ![current_in_flight_frame] = r.in_flight_frame]
            /\ call' = CallOf(current_in_flight_frame, sc, r.outcome)
            /\ pc' = IF r.outcome = "recorded" THEN "idle" ELSE "panicked"
    /\ UNCHANGED <<uniform_alignment, current_in_flight_frame, swapchain_frames,
                   fence_signaled, submissions, image_index, acquire_result,
                   present_result, ret>>
    /\ UNCHANGED <<static_vars, layout, submitted_slots, resize, reallocation, component_list, recording, ui_projection_matrix, matrices, gpu>>

NextFrame == FrameRender

SpecFrame == InitFrame /\ [][NextFrame]_vars

(* ---------------- the packers on object lists of any geometry ---------------- *)
\* geometries of every index count up to the bound, with attribute sizes of every
\* remainder modulo 16 bytes and more than one alignment unit
LayoutGeometries == {<<i, a>> : i \in 1 .. MaxIndexCount, a \in {1, 6, 18, 24}}

LayoutObjectLists == SeqsUpTo(LayoutGeometries, MaxLayoutObjects)

\* the renderer with a list of geometries to be packed
InitLayout ==
    /\ uniform_alignment \in {16, 64, 256}
    /\ RendererNew
    /\ \E objects \in LayoutObjectLists : layout = [NoLayout EXCEPT !.objects = objects]
    /\ reallocation = NoReallocation
    /\ recording = NoRecording
    /\ matrices = NoMatrices

\* render, lines 1011-1062, on a scene that has the geometries as its dynamic meshes and
\* again as its text runs
LayoutDynamic ==
    /\ layout.packed = "none"
    /\ layout' = [layout EXCEPT
           !.packed = "dynamic",
           !.scene = PackScene([meshes |-> [k \in DOMAIN layout.objects |->
                                              NewMesh(layout.objects[k], "Basic")],
                                text |-> [k \in DOMAIN layout.objects |->
                                              NewText(layout.objects[k], TRUE)],
                                point_lights |-> 0], uniform_alignment).scene]
    /\ UNCHANGED <<uniform_alignment, in_flight_frames, current_in_flight_frame,
                   swapchain_frames, fence_signaled, submissions, pc, image_index,
                   acquire_result, present_result, call, ret, scene, frame, static_vars,
                   submitted_slots, resize, reallocation, component_list, recording, ui_projection_matrix, matrices, gpu>>

\* submit_static_meshes, lines 841-858, on the geometries as static meshes
LayoutStatic ==
    /\ layout.packed = "none"
    /\ LET packed == StaticLayout([k \in DOMAIN layout.objects |->
                                       NewStaticMesh(layout.objects[k], "Basic")],
                                  static_mesh_render_info, uniform_alignment)
       IN layout' = [layout EXCEPT
              !.packed = "static",
              !.render_info = packed.render_info,
              !.buffer_size = packed.offset,
              !.staging_capacity = StagingBuffer(packed.offset).capacity,
              !.copy_size = StaticCopy(packed.offset, static_mesh_buffer).size]
    /\ UNCHANGED <<uniform_alignment, in_flight_frames, current_in_flight_frame,
                   swapchain_frames, fence_signaled, submissions, pc, image_index,
                   acquire_result, present_result, call, ret, scene, frame, static_vars,
                   submitted_slots, resize, reallocation, component_list, recording, ui_projection_matrix, matrices, gpu>>

NextLayout ==
    \/ LayoutDynamic
    \/ LayoutStatic

SpecLayout == InitLayout /\ [][NextLayout]_vars

(* ---------------- Buffer::reallocate, statement by statement (buffer.rs, lines 35-46) ---- *)
\* the capacities a caller asks for
ReallocateCapacities == {64 * k : k \in 1 .. MaxCapacityUnits}

\* faulty variant: the old allocation is left on the device
FreeBufferKeeps(allocated, buffer) == allocated

\* lines 37-38: free_memory and destroy_buffer of the Buffer's memory and handle
FreeBuffer(allocated, buffer) == allocated \ {buffer.handle}

\* lines 59, 67, 68: create_buffer, allocate_memory and bind_buffer_memory are unwrapped,
\* a device that is out of memory makes allocate panic
AllocateOutcomes == {"created", "panic"}

\* the usage and memory-property flags the renderer makes its buffers with (renderer.rs,
\* lines 466-467, 708-709, 866-867)
BufferFlags ==
    {[usage |-> {"TRANSFER_DST", "INDEX_BUFFER", "VERTEX_BUFFER", "UNIFORM_BUFFER"},
      properties |-> {"DEVICE_LOCAL"}],
     [usage |-> {"INDEX_BUFFER", "VERTEX_BUFFER", "UNIFORM_BUFFER"},
      properties |-> {"HOST_VISIBLE"}],
     [usage |-> {"TRANSFER_SRC"}, properties |-> {"HOST_VISIBLE"}]}

\* Buffer::allocate(capacity, usage, properties), lines 54-68: what the device is asked for
Allocate(capacity, usage, properties) ==
    [made |-> TRUE, size |-> capacity, usage |-> usage, properties |-> properties]

\* faulty variant: the allocation is asked for with the capacity the Buffer has
ReallocateRequestOldCapacity(r, capacity) ==
    Allocate(r.buffer.capacity, r.usage, r.properties)

\* line 41: Self::allocate(context, capacity, self.usage, self.properties)
ReallocateRequest(r, capacity) == Allocate(capacity, r.usage, r.properties)

\* Buffer::null(usage, properties), lines 25-33
MadeNull(flags) ==
    [NoReallocation EXCEPT !.made = "null", !.usage = flags.usage,
                           !.properties = flags.properties, !.created_with = flags]

\* Buffer::new(capacity, usage, properties), lines 13-23
MadeNew(capacity, flags) ==
    [NoReallocation EXCEPT
        !.made = "new", !.usage = flags.usage, !.properties = flags.properties,
        !.created_with = flags,
        !.buffer = BufferNew(AllocateHandle({}), capacity),
        !.allocated = {AllocateHandle({})},
        !.allocation = Allocate(capacity, flags.usage, flags.properties)]

\* a Buffer as the renderer makes them: Buffer::null (renderer.rs, lines 463-467), or
\* Buffer::new of the frame header size (create_in_flight_frames)
InitBuffer ==
    /\ uniform_alignment = 64
    /\ RendererNew
    /\ layout = NoLayout
    /\ \E flags \in BufferFlags :
          \/ reallocation = MadeNull(flags)
          \/ reallocation = MadeNew(FRAME_DATA_MEMORY_SIZE, flags)
    /\ recording = NoRecording
    /\ matrices = NoMatrices

\* reallocate(capacity), lines 36-39: the old memory is freed, the old buffer destroyed
ReallocateFree ==
    /\ reallocation.step = "idle"
    /\ \E capacity \in ReallocateCapacities :
          reallocation' = [reallocation EXCEPT
                              !.step = "freed",
                              !.capacity = capacity,
                              !.handle = NullHandle,
                              !.allocated = FreeBuffer(reallocation.allocated,
                                                       reallocation.buffer)]
    /\ UNCHANGED <<uniform_alignment, in_flight_frames, current_in_flight_frame,
                   swapchain_frames, fence_signaled, submissions, pc, image_index,
                   acquire_result, present_result, call, ret, scene, frame, static_vars,
                   layout, submitted_slots, resize, component_list, recording, ui_projection_matrix, matrices, gpu>>

\* line 41: Self::allocate gives the local handle a new buffer, or panics
ReallocateAllocate ==
    /\ reallocation.step = "freed"
    /\ \E outcome \in AllocateOutcomes :
          IF outcome = "panic"
          THEN reallocation' = [reallocation EXCEPT !.step = "panicked"]
          ELSE reallocation' = [reallocation EXCEPT
                                   !.step = "allocated",
                                   !.allocation = ReallocateRequest(reallocation,
                                                                    reallocation.capacity),
                                   !.handle = AllocateHandle(reallocation.allocated),
                                   !.allocated = reallocation.allocated
                                        \cup {AllocateHandle(reallocation.allocated)}]
    /\ UNCHANGED <<uniform_alignment, in_flight_frames, current_in_flight_frame,
                   swapchain_frames, fence_signaled, submissions, pc, image_index,
                   acquire_result, present_result, call, ret, scene, frame, static_vars,
                   layout, submitted_slots, resize, component_list, recording, ui_projection_matrix, matrices, gpu>>

\* lines 43-45: the new handle and the new capacity are assigned to the Buffer
ReallocateAssign ==
    /\ reallocation.step = "allocated"
    /\ reallocation' = [reallocation EXCEPT
                            !.step = "idle",
                            !.buffer = BufferNew(reallocation.handle, reallocation.capacity)]
    /\ UNCHANGED <<uniform_alignment, in_flight_frames, current_in_flight_frame,
                   swapchain_frames, fence_signaled, submissions, pc, image_index,
                   acquire_result, present_result, call, ret, scene, frame, static_vars,
                   layout, submitted_slots, resize, component_list, recording, ui_projection_matrix, matrices, gpu>>

NextBuffer ==
    \/ ReallocateFree
    \/ ReallocateAllocate
    \/ ReallocateAssign

SpecBuffer == InitBuffer /\ [][NextBuffer]_vars

(* ---------------- calls that pack matrices ---------------- *)
\* a caller's camera, meshes and text, fresh or stale, flagged or not
InitMatrices ==
    /\ uniform_alignment = 64
    /\ RendererNew
    /\ layout = NoLayout
    /\ reallocation = NoReallocation
    /\ recording = NoRecording
    /\ \E camera \in SceneObjects, meshes \in SeqsUpTo(SceneObjects, 1),
          text \in SeqsUpTo(SceneObjects, 1) :
          matrices = [NoMatrices EXCEPT !.camera = camera, !.meshes = meshes,
                                        !.text = text]

\* render, lines 1015-1018, 1035-1037, 1086-1094, 1189-1191, 1221-1225: the transforms of
\* the meshes and of the text are updated while the layout is computed, the camera's when
\* the header is written, and the matrices are copied afterwards
RenderMatrices ==
    /\ matrices.called # "render"
    /\ LET meshes == [k \in DOMAIN matrices.meshes |-> AutoUpdate(matrices.meshes[k])]
           text == [k \in DOMAIN matrices.text |-> AutoUpdateText(matrices.text[k])]
           camera == AutoUpdate(matrices.camera)
       IN matrices' =
            [matrices EXCEPT
               !.called = "render",
               !.meshes = meshes,
               !.text = text,
               !.camera = camera,
               !.packed_camera = <<PackedMatrix(matrices.camera,
                                                Invert(camera.transform.matrix))>>,
               !.packed_meshes = [k \in DOMAIN meshes |->
                                    PackedMatrix(matrices.meshes[k],
                                                 meshes[k].transform.matrix)],
               !.packed_text = [k \in DOMAIN text |->
                                  PackedMatrix(matrices.text[k],
                                               TextMatrix(ui_projection_matrix,
                                                          text[k].transform.matrix))]]
    /\ UNCHANGED <<uniform_alignment, in_flight_frames, current_in_flight_frame,
                   swapchain_frames, fence_signaled, submissions, pc, image_index,
                   acquire_result, present_result, call, ret, scene, frame, static_vars,
                   layout, submitted_slots, resize, reallocation, component_list,
                   recording, ui_projection_matrix, gpu>>

\* submit_static_meshes, lines 872-891: each mesh is updated and copied in turn
SubmitStaticMatrices ==
    /\ matrices.called # "static"
    /\ LET meshes == [k \in DOMAIN matrices.meshes |-> AutoUpdate(matrices.meshes[k])]
       IN matrices' =
            [matrices EXCEPT
               !.called = "static",
               !.meshes = meshes,
               !.packed_static = [k \in DOMAIN meshes |->
                                    PackedMatrix(matrices.meshes[k],
                                                 meshes[k].transform.matrix)]]
    /\ UNCHANGED <<uniform_alignment, in_flight_frames, current_in_flight_frame,
                   swapchain_frames, fence_signaled, submissions, pc, image_index,
                   acquire_result, present_result, call, ret, scene, frame, static_vars,
                   layout, submitted_slots, resize, reallocation, component_list,
                   recording, ui_projection_matrix, gpu>>

\* between two calls the caller moves a mesh, as Transform3D::translate_on_axis does:
\* the position changes, the matrix does not
MoveMesh ==
    /\ matrices.called # "none"
    /\ \E k \in DOMAIN matrices.meshes, pose \in Poses :
          /\ pose # matrices.meshes[k].transform.pose
          /\ matrices' = [matrices EXCEPT !.called = "none",
                                          !.meshes[k].transform.pose = pose]
    /\ UNCHANGED <<uniform_alignment, in_flight_frames, current_in_flight_frame,
                   swapchain_frames, fence_signaled, submissions, pc, image_index,
                   acquire_result, present_result, call, ret, scene, frame, static_vars,
                   layout, submitted_slots, resize, reallocation, component_list,
                   recording, ui_projection_matrix, gpu>>

NextMatrices ==
    \/ RenderMatrices
    \/ SubmitStaticMatrices
    \/ MoveMesh

SpecMatrices == InitMatrices /\ [][NextMatrices]_vars

(* ---------------- the draws of a frame, by material ---------------- *)
\* the renderer with the materials of a scene's meshes, the number of its text runs and
\* the materials of the static render-info table
InitDraws ==
    /\ uniform_alignment = 64
    /\ RendererNew
    /\ layout = NoLayout
    /\ reallocation = NoReallocation
    /\ \E meshes \in SeqsUpTo(Material, MaxLayoutObjects),
          render_info \in SeqsUpTo(Material, MaxLayoutObjects),
          texts \in 0 .. 1 :
          recording = [NoRecording EXCEPT !.meshes = meshes, !.texts = texts,
                                          !.render_info = render_info]
    /\ matrices = NoMatrices

\* render, lines 1172-1265: the three draw loops
RecordDraws ==
    /\ ~recording.recorded
    /\ recording' = [recording EXCEPT
                         !.recorded = TRUE,
                         !.draws = RecordedDraws(recording.meshes, recording.texts,
                                                 recording.render_info)]
    /\ UNCHANGED <<uniform_alignment, in_flight_frames, current_in_flight_frame,
                   swapchain_frames, fence_signaled, submissions, pc, image_index,
                   acquire_result, present_result, call, ret, scene, frame, static_vars,
                   layout, submitted_slots, resize, reallocation, component_list,
                   ui_projection_matrix, matrices, gpu>>

NextDraws == RecordDraws

SpecDraws == InitDraws /\ [][NextDraws]_vars

(* ---------------- a ComponentList under add and remove calls ---------------- *)
InitComponents ==
    /\ uniform_alignment = 64
    /\ Constructed

\* the caller adds a component to an entity; a panic ends the program
ComponentAdd ==
    /\ component_list.last.outcome # "panic"
    /\ \E entity \in Entities, component \in ComponentValues :
          component_list' = Add(component_list, entity, component)
    /\ UNCHANGED <<uniform_alignment, in_flight_frames, current_in_flight_frame,
                   swapchain_frames, fence_signaled, submissions, pc, image_index,
                   acquire_result, present_result, call, ret, scene, frame, static_vars,
                   layout, submitted_slots, resize, reallocation, recording, ui_projection_matrix, matrices, gpu>>

\* the caller removes the component of an entity; a panic ends the program
ComponentRemove ==
    /\ component_list.last.outcome # "panic"
    /\ \E entity \in Entities :
          component_list' = Remove(component_list, entity)
    /\ UNCHANGED <<uniform_alignment, in_flight_frames, current_in_flight_frame,
                   swapchain_frames, fence_signaled, submissions, pc, image_index,
                   acquire_result, present_result, call, ret, scene, frame, static_vars,
                   layout, submitted_slots, resize, reallocation, recording, ui_projection_matrix, matrices, gpu>>

\* the caller borrows the component of an entity, in one of the four ways
ComponentBorrow ==
    /\ component_list.last.outcome # "panic"
    /\ \E entity \in Entities,
          op \in {"borrow", "borrow_mut", "try_borrow", "try_borrow_mut"} :
          component_list' = Borrowed(component_list, op, entity)
    /\ UNCHANGED <<uniform_alignment, in_flight_frames, current_in_flight_frame,
                   swapchain_frames, fence_signaled, submissions, pc, image_index,
                   acquire_result, present_result, call, ret, scene, frame, static_vars,
                   layout, submitted_slots, resize, reallocation, recording,
                   ui_projection_matrix, matrices, gpu>>

NextComponents ==
    \/ ComponentAdd
    \/ ComponentRemove
    \/ ComponentBorrow

SpecComponents == InitComponents /\ [][NextComponents]_vars

(* ---------------- the static submissions, one submit_static_meshes call after another ---- *)
\* Renderer::new on any device
InitStatic ==
    /\ uniform_alignment \in UniformAlignments
    /\ Constructed

\* a submit_static_meshes call made while the graphics queue is idle, lines 834-960
StaticSubmit ==
    /\ pc = "idle"
    /\ submissions = {}
    /\ \E meshes \in StaticMeshLists :
         \E r \in {StaticSubmitResult(meshes, static_mesh_buffer,
                                      static_mesh_data_descriptor_set,
                                      static_mesh_render_info, uniform_alignment,
                                      LiveHandles(in_flight_frames)
                                          \cup StaticHandles(static_mesh_buffer,
                                                             static_mesh_data_descriptor_set))} :
            /\ static_mesh_render_info' = r.render_info
            /\ \E staging \in StagingBufferOutcomes(r.buffer_size) :
                  IF staging = "panic"
                  THEN /\ pc' = "panicked"
                       /\ static_call' =
                              [StaticCallOf(r, static_mesh_render_info, static_call)
                                  EXCEPT !.copied = FALSE, !.reallocated = FALSE]
                       /\ UNCHANGED <<static_mesh_buffer, static_mesh_data_descriptor_set>>
                  ELSE /\ pc' = "idle"
                       /\ static_mesh_buffer' = r.buffer
                       /\ static_mesh_data_descriptor_set' = r.descriptor_set
                       /\ static_call' =
                              StaticCallOf(r, static_mesh_render_info, static_call)
    /\ UNCHANGED <<uniform_alignment, in_flight_frames, current_in_flight_frame,
                   swapchain_frames, fence_signaled, submissions, image_index,
                   acquire_result, present_result, call, ret, scene, frame, layout,
                   submitted_slots, resize, reallocation, component_list, recording, ui_projection_matrix, matrices, gpu>>

NextStatic == StaticSubmit

SpecStatic == InitStatic /\ [][NextStatic]_vars

(* ---------------- submit_static_meshes between frames, wait by wait ---------------- *)
\* the mesh lists handed to submit_static_meshes here: none, one mesh, two meshes
QueueMeshLists ==
    {<<>>, <<NewStaticMesh(Triangle, "Basic")>>,
     <<NewStaticMesh(Triangle, "Basic"), NewStaticMesh(Plane, "Lambert")>>}

\* faulty variant: submit_static_meshes goes on without waiting for the queue
QueueWaitIdleNoWait(pending) == TRUE

\* lines 839, 955, 957: queue_wait_idle returns when no batch submitted to the graphics
\* queue is pending
QueueWaitIdle(pending) == pending = {}

\* line 956: the copy batch, submitted with the null fence; it uses no slot and no image
CopySubmission == [frame |-> IN_FLIGHT_FRAMES_COUNT, image |-> NumImages, fence |-> NullFence]

\* Renderer::new on a device whose uniform alignment is 64
InitQueue ==
    /\ uniform_alignment = 64
    /\ Constructed

\* render up to a successful acquisition
QueueRenderAcquire == RenderAcquireWith({"success"})

\* the rest of a render call: a frame of an empty scene or of one mesh, with the static
\* draws of the table, presented successfully
QueueRenderFrame ==
    RenderFrameWith({sc \in SyncScenes : sc.text = <<>> /\ sc.point_lights = 0}, {"success"})

\* submit_static_meshes, lines 838-947: the wait of line 839, the render-info table, the
\* staging buffer, the growth of the static buffer, the recorded copy
StaticRecord ==
    /\ pc = "idle"
    /\ QueueWaitIdle(submissions)
    /\ \E meshes \in QueueMeshLists :
         \E r \in {StaticSubmitResult(meshes, static_mesh_buffer,
                                      static_mesh_data_descriptor_set,
                                      static_mesh_render_info, uniform_alignment,
                                      LiveHandles(in_flight_frames)
                                          \cup StaticHandles(static_mesh_buffer,
                                                             static_mesh_data_descriptor_set))} :
            /\ static_mesh_render_info' = r.render_info
            /\ \E staging \in StagingBufferOutcomes(r.buffer_size) :
                  IF staging = "panic"
                  THEN /\ pc' = "panicked"
                       /\ static_call' =
                              [StaticCallOf(r, static_mesh_render_info, static_call)
                                  EXCEPT !.copied = FALSE, !.reallocated = FALSE,
                                         !.pending_at_entry = submissions # {}]
                       /\ UNCHANGED <<static_mesh_buffer, static_mesh_data_descriptor_set>>
                  ELSE /\ pc' = "static_recorded"
                       /\ static_mesh_buffer' = r.buffer
                       /\ static_mesh_data_descriptor_set' = r.descriptor_set
                       /\ static_call' =
                              [StaticCallOf(r, static_mesh_render_info, static_call)
                                  EXCEPT !.copied = FALSE,
                                         !.pending_at_entry = submissions # {}]
    /\ UNCHANGED <<uniform_alignment, in_flight_frames, current_in_flight_frame,
                   swapchain_frames, fence_signaled, submissions, image_index,
                   acquire_result, present_result, call, ret, scene, frame, layout,
                   submitted_slots, resize, reallocation, component_list, recording, ui_projection_matrix, matrices, gpu>>

\* lines 955-956: the second wait, then queue_submit of the copy
StaticQueueSubmit ==
    /\ pc = "static_recorded"
    /\ QueueWaitIdle(submissions)
    /\ submissions' = submissions \cup {CopySubmission}
    /\ static_call' = [static_call EXCEPT !.pending_at_copy = submissions # {}]
    /\ pc' = "static_submitted"
    /\ UNCHANGED <<uniform_alignment, in_flight_frames, current_in_flight_frame,
                   swapchain_frames, fence_signaled, image_index, acquire_result,
                   present_result, call, ret, scene, frame, layout, submitted_slots,
                   resize, reallocation, component_list, recording, ui_projection_matrix, matrices, gpu>>
    /\ UNCHANGED <<static_mesh_buffer, static_mesh_render_info,
                   static_mesh_data_descriptor_set>>

\* lines 957-959: the third wait, the command buffer is freed, the call returns
StaticReturn ==
    /\ pc = "static_submitted"
    /\ QueueWaitIdle(submissions)
    /\ static_call' = [static_call EXCEPT !.copied = CopySubmission \notin submissions,
                                          !.pending_at_return = submissions # {}]
    /\ pc' = "idle"
    /\ UNCHANGED <<uniform_alignment, in_flight_frames, current_in_flight_frame,
                   swapchain_frames, fence_signaled, submissions, image_index,
                   acquire_result, present_result, call, ret, scene, frame, layout,
                   submitted_slots, resize, reallocation, component_list, recording, ui_projection_matrix, matrices, gpu>>
    /\ UNCHANGED <<static_mesh_buffer, static_mesh_render_info,
                   static_mesh_data_descriptor_set>>

NextQueue ==
    \/ QueueRenderAcquire
    \/ QueueRenderFrame
    \/ RenderReturn
    \/ GpuComplete
    \/ StaticRecord
    \/ StaticQueueSubmit
    \/ StaticReturn

SpecQueue == InitQueue /\ [][NextQueue]_vars

(* ---------------- resize events of any size between frames with text ---------------- *)
\* a resize event of any of the sizes
ResizeToAnySize == HandleResizeWith(FramebufferSizes)

\* the rest of a render call on a scene with or without a text run, presented successfully
ResizeRenderFrame ==
    RenderFrameWith({sc \in SyncScenes : /\ sc.meshes = <<>>
                                         /\ sc.point_lights = 0
                                         /\ \A k \in DOMAIN sc.text : sc.text[k].font_found},
                    {"success"})

NextResize ==
    \/ QueueRenderAcquire
    \/ ResizeRenderFrame
    \/ RenderReturn
    \/ GpuComplete
    \/ ResizeToAnySize
    \/ ResizeReturn

SpecResize == InitQueue /\ [][NextResize]_vars

(* ---------------- frames on a device that runs the batches stage by stage -------------- *)
\* Renderer::new on a surface whose swapchain has one image more than its minimum
InitDevice ==
    /\ uniform_alignment = 64
    /\ RendererNewOn(CreateSurfaceSwapchainFrames)
    /\ layout = NoLayout
    /\ reallocation = NoReallocation
    /\ recording = NoRecording
    /\ matrices = NoMatrices

\* the queue without its k-th operation
WithoutOperation(queue, k) ==
    [j \in 1 .. Len(queue) - 1 |-> IF j < k THEN queue[j] ELSE queue[j + 1]]

\* a render call up to the acquisition; the swapchain hands out an image that is not
\* waiting to be presented, and nothing when it is out of date
DeviceRenderAcquire ==
    /\ RenderAcquireStep({"success", "out_of_date"})
    /\ IF pc' = "acquired"
       THEN /\ \A k \in DOMAIN gpu.queue : gpu.queue[k].image # image_index'
            /\ gpu' = AcquireNextImage(gpu, current_in_flight_frame, image_index')
       ELSE UNCHANGED gpu

\* the rest of a render call: the batch and the presentation are put on the graphics queue
DeviceRenderFrame ==
    /\ RenderFrameStep({EmptyScene}, {"success"})
    /\ gpu' = QueueSubmitAndPresent(gpu, current_in_flight_frame, image_index)

\* the presentation engine lets go of the image a slot acquired: the slot's image_available
\* is signaled
DeviceImageAvailable ==
    /\ \E s \in Slots :
          /\ gpu.acquiring[s] # NoImage
          /\ gpu' = [gpu EXCEPT !.acquiring[s] = NoImage,
                                !.image_available[s] = TRUE,
                                !.image_ready[gpu.acquiring[s]] = TRUE]
    /\ UNCHANGED <<uniform_alignment, in_flight_frames, current_in_flight_frame,
                   swapchain_frames, fence_signaled, submissions, pc, image_index,
                   acquire_result, present_result, call, ret, scene, frame, static_vars,
                   layout, submitted_slots, resize, reallocation, component_list,
                   recording, ui_projection_matrix, matrices>>

\* the queue takes up its next batch: the stages before the one of line 1320
\* (COLOR_ATTACHMENT_OUTPUT) run without waiting for the semaphore. Batches begin in
\* submission order; a presentation submitted before the batch may still be waiting to be
\* performed, since nothing of lines 1319-1344 makes the batch wait for it
DeviceBeginBatch ==
    /\ \E k \in DOMAIN gpu.queue :
          /\ gpu.queue[k].kind = "batch"
          /\ \A j \in 1 .. k - 1 : gpu.queue[j].kind = "present"
          /\ LET op == gpu.queue[k]
             IN gpu' = [gpu EXCEPT !.queue = WithoutOperation(gpu.queue, k),
                                   !.batches[op.slot].phase = "early_stages",
                                   !.batches[op.slot].started_available =
                                       gpu.image_ready[op.image]]
    /\ UNCHANGED <<uniform_alignment, in_flight_frames, current_in_flight_frame,
                   swapchain_frames, fence_signaled, submissions, pc, image_index,
                   acquire_result, present_result, call, ret, scene, frame, static_vars,
                   layout, submitted_slots, resize, reallocation, component_list,
                   recording, ui_projection_matrix, matrices>>

\* lines 1319-1320: the color-attachment-output stage of a batch waits for the batch's
\* wait semaphore and unsignals it
DeviceColorOutput ==
    /\ \E s \in Slots :
          /\ gpu.batches[s].phase = "early_stages"
          /\ gpu.image_available[gpu.batches[s].wait]
          /\ gpu' = [gpu EXCEPT !.image_available[gpu.batches[s].wait] = FALSE,
                                !.batches[s].phase = "color_output",
                                !.batches[s].color_available =
                                    gpu.image_ready[gpu.batches[s].image]]
    /\ UNCHANGED <<uniform_alignment, in_flight_frames, current_in_flight_frame,
                   swapchain_frames, fence_signaled, submissions, pc, image_index,
                   acquire_result, present_result, call, ret, scene, frame, static_vars,
                   layout, submitted_slots, resize, reallocation, component_list,
                   recording, ui_projection_matrix, matrices>>

\* lines 1322, 1333: a batch ends; its signal semaphore and its fence are signaled
DeviceFinishBatch ==
    \E sub \in submissions :
       /\ gpu.batches[sub.frame].phase = "color_output"
       /\ GpuCompleteStep(sub)
       /\ gpu' = [gpu EXCEPT !.batches[sub.frame].phase = "finished",
                             !.image_rendered[gpu.batches[sub.frame].image] = TRUE,
                             !.render_finished[gpu.batches[sub.frame].signal] = TRUE]

\* lines 1337-1344: the queue takes up its next operation, a presentation: it waits for
\* its semaphore, unsignals it, and hands the image to the presentation engine
DevicePresent ==
    /\ gpu.queue # <<>>
    /\ Head(gpu.queue).kind = "present"
    /\ LET op == Head(gpu.queue)
       IN /\ gpu.render_finished[op.wait]
          /\ gpu' = [gpu EXCEPT !.queue = Tail(gpu.queue),
                                !.render_finished[op.wait] = FALSE,
                                !.image_ready[op.image] = FALSE,
                                !.presented =
                                    [slot |-> op.slot, image |-> op.image,
                                     rendered |-> gpu.image_rendered[op.image]]]
    /\ UNCHANGED <<uniform_alignment, in_flight_frames, current_in_flight_frame,
                   swapchain_frames, fence_signaled, submissions, pc, image_index,
                   acquire_result, present_result, call, ret, scene, frame, static_vars,
                   layout, submitted_slots, resize, reallocation, component_list,
                   recording, ui_projection_matrix, matrices>>

NextDevice ==
    \/ DeviceRenderAcquire
    \/ DeviceRenderFrame
    \/ RenderReturn
    \/ DeviceImageAvailable
    \/ DeviceBeginBatch
    \/ DeviceColorOutput
    \/ DeviceFinishBatch
    \/ DevicePresent

SpecDevice == InitDevice /\ [][NextDevice]_vars

(* ---------------- every call of the renderer, on a GPU that completes its batches -------- *)
\* every batch that can be submitted: a frame of a slot on an image, or the copy
AllSubmissions ==
    {[frame |-> s, image |-> i, fence |-> FenceOf(s)] : s \in Slots, i \in Images}
        \cup {CopySubmission}

\* render up to the acquisition, which succeeds or is aborted as out of date
LiveRenderAcquire == RenderAcquireWith({"success", "out_of_date"})

\* the rest of a render call on an empty scene, the presentation up to date or not
LiveRenderFrame == RenderFrameWith({EmptyScene}, {"success", "out_of_date"})

NextLive ==
    \/ LiveRenderAcquire
    \/ LiveRenderFrame
    \/ RenderReturn
    \/ GpuComplete
    \/ HandleResize
    \/ ResizeReturn
    \/ StaticRecord
    \/ StaticQueueSubmit
    \/ StaticReturn

\* the GPU eventually completes every batch submitted to it
GpuFairness == \A sub \in AllSubmissions : WF_vars(GpuCompleteOf(sub))

SpecLive == InitQueue /\ [][NextLive]_vars /\ GpuFairness

(* ======================= claims ======================= *)
Finished == pc \in {"returned", "panicked"}
Stale == {"suboptimal", "out_of_date"}

\* C1: render works on a slot's dynamic buffer, command buffers and descriptor sets only
\* while no submission that uses the slot is pending: once the image is acquired the slot's
\* fence has been observed signaled and nothing submitted with the slot is still running,
\* and no call has touched its slot with such a submission pending.
C1_SlotIdleWhileReused ==
    /\ pc = "acquired" =>
          /\ fence_signaled[in_flight_frames[current_in_flight_frame].fence]
          /\ \A sub \in submissions : sub.frame # current_in_flight_frame
    /\ ~call.slot_pending

\* both slots have a frame running: the next render call is held at the fence of its slot
C1_Witness ==
    /\ pc = "idle"
    /\ ~fence_signaled[in_flight_frames[current_in_flight_frame].fence]
    /\ \E sub \in submissions : sub.frame = current_in_flight_frame
    /\ \E sub \in submissions : sub.frame # current_in_flight_frame

\* C2: when render records and submits work for the acquired image, no earlier submission
\* that targeted this image is still pending, and the image's last-submission fence is the
\* completion fence of the slot the call uses.
C2_ImageIdleWhenTargeted ==
    /\ ~call.image_pending
    /\ (Finished /\ call.recorded) =>
          swapchain_frames[image_index].fence = in_flight_frames[call.frame].fence

\* a frame was submitted for an image that had the last-submission fence of an earlier frame
C2_Witness ==
    /\ pc = "returned"
    /\ call.submitted
    /\ call.image_waited
    /\ \E sub \in submissions : sub.frame # call.frame

C4_Original ==
    (pc = "returned" /\ (acquire_result \in Stale \/ present_result \in Stale)) => ret = "true"

\* C4 as amended: out-of-date at acquire time, and out-of-date or suboptimal at present
\* time, make render return true; suboptimal at acquire time lets the frame go on and render
\* returns what present reports; none of these results aborts the process (a call aborts
\* only on another acquire or present error, or while it lays out the frame).
C4_StaleResults ==
    /\ acquire_result = "out_of_date" => pc = "returned" /\ ret = "true"
    /\ (Finished /\ present_result \in Stale) => pc = "returned" /\ ret = "true"
    /\ (pc = "returned" /\ acquire_result = "suboptimal") =>
          (ret = "true" <=> present_result \in Stale)
    /\ pc = "panicked" =>
          acquire_result = "error" \/ present_result = "error" \/ ~call.recorded

\* a frame acquired as suboptimal, presented without a surface change, returns false
C4_Witness ==
    /\ pc = "returned"
    /\ acquire_result = "suboptimal"
    /\ present_result = "success"
    /\ ret = "false"

\* C5: for a submitted frame render returns true exactly when present reports suboptimal or
\* out-of-date, false when present succeeds, and any other present error aborts.
C5_ReturnFollowsPresent ==
    (Finished /\ call.submitted) =>
        /\ present_result \in PresentResults
        /\ present_result \in {"suboptimal", "out_of_date"} => pc = "returned" /\ ret = "true"
        /\ present_result = "success" => pc = "returned" /\ ret = "false"
        /\ present_result = "error" => pc = "panicked" /\ ret = "none"

\* a submitted frame whose present reported suboptimal
C5_Witness ==
    /\ pc = "returned"
    /\ call.submitted
    /\ present_result = "suboptimal"
    /\ ret = "true"

Grown == frame.in_flight_frame.buffer # frame.before.buffer

\* C7: from one render call to the next a slot's dynamic buffer capacity never decreases;
\* the buffer is reallocated only when the frame's required size exceeds the capacity; after
\* packing the capacity is at least the required size; and a call whose fonts are found and
\* whose point lights are within the maximum is recorded whether the buffer grew or not.
C7_CapacityOnlyGrows ==
    frame.outcome # "none" =>
        /\ frame.in_flight_frame.buffer.capacity >= frame.before.buffer.capacity
        /\ Grown => /\ frame.buffer_size > frame.before.buffer.capacity
                    /\ frame.in_flight_frame.buffer.capacity = frame.buffer_size
        /\ frame.outcome # "font_not_found" =>
              frame.in_flight_frame.buffer.capacity >= frame.buffer_size
        /\ scene.point_lights <= 5 => frame.outcome = "recorded"
        /\ in_flight_frames[current_in_flight_frame] = frame.in_flight_frame

\* a frame that fits the buffer an earlier, larger frame has grown
C7_Witness ==
    /\ frame.outcome = "recorded"
    /\ ~Grown
    /\ frame.buffer_size < frame.in_flight_frame.buffer.capacity
    /\ frame.buffer_size > 304

\* C8 as stated: every byte a render call writes goes to the slot's current buffer, at an
\* offset below its capacity.
C8_Original ==
    \A w \in frame.writes :
        /\ w.handle = frame.in_flight_frame.buffer.handle
        /\ w.capacity = frame.in_flight_frame.buffer.capacity
        /\ w.offset + w.size <= w.capacity

\* C9: whenever the slot's buffer is grown, the four bindings reference the new buffer at
\* offset 0 with ranges 304, 64, 48 and 4 bytes, the new buffer is not the old one, and the
\* scene has the objects it had.
C9_GrowthRewritesBindings ==
    Grown =>
        LET d == frame.in_flight_frame.descriptor_sets
            b == frame.in_flight_frame.buffer.handle
        IN /\ b # frame.before.buffer.handle
           /\ b # NullHandle
           /\ d.frame_data = <<[buffer |-> b, offset |-> 0, range |-> 304]>>
           /\ d.mesh_data = <<[buffer |-> b, offset |-> 0, range |-> 64]>>
           /\ d.text_data = <<[buffer |-> b, offset |-> 0, range |-> 48],
                              [buffer |-> b, offset |-> 0, range |-> 4]>>
           /\ Len(frame.scene.meshes) = Len(scene.meshes)
           /\ Len(frame.scene.text) = Len(scene.text)
           /\ \A k \in DOMAIN scene.meshes :
                 /\ frame.scene.meshes[k].indices = scene.meshes[k].indices
                 /\ frame.scene.meshes[k].attributes = scene.meshes[k].attributes
                 /\ frame.scene.meshes[k].material = scene.meshes[k].material
           /\ \A k \in DOMAIN scene.text :
                 /\ frame.scene.text[k].indices = scene.text[k].indices
                 /\ frame.scene.text[k].attributes = scene.text[k].attributes
           /\ frame.scene.point_lights = scene.point_lights

\* a buffer that had grown before is grown again for a scene with meshes and text
C9_Witness ==
    /\ Grown
    /\ frame.before.buffer.capacity > 304
    /\ frame.before.descriptor_sets.text_data[1].range = 48
    /\ scene.meshes # <<>>
    /\ scene.text # <<>>

\* the objects of a packed scene in iteration order, meshes then text: where the indices
\* start, how many bytes they take, where the attributes start, where the first uniform
\* starts and where the last uniform ends
Layout(s) ==
    [k \in DOMAIN s.meshes |->
        [index_offset |-> s.meshes[k].index_offset,
         index_size |-> 2 * s.meshes[k].indices,
         attribute_offset |-> s.meshes[k].attribute_offset,
         uniform_offset |-> s.meshes[k].uniform_offset,
         uniform_end |-> s.meshes[k].uniform_offset + 64]]
    \o
    [k \in DOMAIN s.text |->
        [index_offset |-> s.text[k].index_offset,
         index_size |-> 2 * s.text[k].indices,
         attribute_offset |-> s.text[k].attribute_offset,
         uniform_offset |-> s.text[k].matrix_uniform_offset,
         uniform_end |-> IF s.text[k].matrix_uniform_offset + 48
                              > s.text[k].atlas_index_uniform_offset + 4
                         THEN s.text[k].matrix_uniform_offset + 48
                         ELSE s.text[k].atlas_index_uniform_offset + 4]]

\* the least multiple of 4 that is at least n
UpToMultipleOf4(n) == ((n + 3) \div 4) * 4

\* C10: the offsets render packs increase in iteration order: the first index offset is the
\* frame-header size 304, each later object's indices start at or after the end of the
\* previous object's uniforms, inside an object indices, attributes and uniforms follow each
\* other, and every attribute offset is the index offset plus the index byte size, rounded up
\* to the next multiple of 4.
C10_OffsetsIncrease ==
    frame.outcome \in {"recorded", "too_many_point_lights"} =>
        LET l == Layout(frame.scene)
        IN /\ l # <<>> => l[1].index_offset = 304
           /\ \A k \in DOMAIN l :
                 /\ l[k].attribute_offset = UpToMultipleOf4(l[k].index_offset + l[k].index_size)
                 /\ l[k].index_offset < l[k].attribute_offset
                 /\ l[k].attribute_offset < l[k].uniform_offset
                 /\ l[k].uniform_offset < l[k].uniform_end
                 /\ l[k].uniform_end <= frame.buffer_size
           /\ \A k \in DOMAIN l :
                 k > 1 => /\ l[k].index_offset >= l[k - 1].uniform_end
                          /\ l[k].index_offset > l[k - 1].index_offset

\* two meshes and a text are packed, with indices that need padding and indices that do not
C10_Witness ==
    /\ frame.outcome = "recorded"
    /\ Len(frame.scene.meshes) >= 2
    /\ Len(frame.scene.text) >= 1
    /\ \E k \in DOMAIN frame.scene.meshes :
          (frame.scene.meshes[k].index_offset + 2 * frame.scene.meshes[k].indices) % 4 # 0
    /\ \E k \in DOMAIN frame.scene.meshes :
          (frame.scene.meshes[k].index_offset + 2 * frame.scene.meshes[k].indices) % 4 = 0

\* C13 as stated: the static layout is packed: the first mesh's indices start at offset 0,
\* each later mesh's indices start right after the previous mesh's 64-byte transform
\* uniform, and the buffer size is the end of the last mesh's transform uniform.
C13_Original ==
    static_call.called =>
        LET info == static_mesh_render_info
        IN /\ info # <<>> => info[1].index_offset = 0
           /\ \A k \in DOMAIN info :
                 k > 1 => info[k].index_offset = info[k - 1].uniform_offset + 64
           /\ static_call.buffer_size =
                 IF info = <<>> THEN 0 ELSE info[Len(info)].uniform_offset + 64

\* C14: when submit_static_meshes is called with the mesh list of the call before it, the
\* render-info table and the static buffer size are those of the call before, and the
\* static buffer is not reallocated.
C14_SameListSameResult ==
    (static_call.called /\ static_call.previous.called
        /\ static_call.meshes = static_call.previous.meshes) =>
        /\ static_mesh_render_info = static_call.render_info_before
        /\ static_call.buffer_size = static_call.previous.buffer_size
        /\ ~static_call.reallocated
        /\ static_mesh_buffer = static_call.before

\* a list of two meshes or more was submitted twice in a row
C14_Witness ==
    /\ static_call.copied
    /\ static_call.previous.called
    /\ static_call.meshes = static_call.previous.meshes
    /\ Len(static_call.meshes) >= 2
    /\ static_mesh_buffer.capacity = static_call.buffer_size

\* C16: after a submit_static_meshes call the render-info table has one entry per
\* submitted mesh, in submission order, with the mesh's index count and material; no entry
\* of an earlier call is left.
C16_RenderInfoReplaced ==
    static_call.called =>
        /\ Len(static_mesh_render_info) = Len(static_call.meshes)
        /\ \A k \in DOMAIN static_mesh_render_info :
              /\ k \in DOMAIN static_call.meshes
              /\ static_mesh_render_info[k].index_count = static_call.meshes[k].indices
              /\ static_mesh_render_info[k].material = static_call.meshes[k].material

\* a shorter list of other meshes replaced the table of an earlier call
C16_Witness ==
    /\ static_call.called
    /\ static_call.meshes # <<>>
    /\ Len(static_call.render_info_before) > Len(static_call.meshes)
    /\ static_call.render_info_before[1].material # static_mesh_render_info[1].material

\* C17 as stated: the static buffer has a non-zero capacity when it is the destination of
\* the copy, and whenever the render-info table has a draw the buffer and the descriptor
\* set that the draw binds are those of an allocated buffer.
C17_Original ==
    static_call.copied =>
        /\ static_call.copy.dst # NullHandle
        /\ static_call.copy.dst_capacity > 0
        /\ static_mesh_render_info # <<>> =>
              /\ static_mesh_buffer.capacity > 0
              /\ static_mesh_data_descriptor_set[1].buffer = static_mesh_buffer.handle

\* C11: for every object list, alignment, index count and attribute size, the transform
\* uniform offset of every dynamic mesh, text run and static mesh is a multiple of the
\* device's minimum uniform-buffer-offset alignment, and every attribute offset is a
\* multiple of 4.
C11_OffsetsAligned ==
    /\ \A k \in DOMAIN layout.scene.meshes :
          /\ layout.scene.meshes[k].uniform_offset % uniform_alignment = 0
          /\ layout.scene.meshes[k].attribute_offset % 4 = 0
    /\ \A k \in DOMAIN layout.scene.text :
          /\ layout.scene.text[k].matrix_uniform_offset % uniform_alignment = 0
          /\ layout.scene.text[k].attribute_offset % 4 = 0
    /\ \A k \in DOMAIN layout.render_info :
          /\ layout.render_info[k].uniform_offset % uniform_alignment = 0
          /\ layout.render_info[k].attribute_offset % 4 = 0

\* two static meshes are packed, the second with padding after its indices and after its
\* attributes, on a device whose alignment is larger than a transform uniform
C11_Witness ==
    /\ layout.packed = "static"
    /\ uniform_alignment = 256
    /\ Len(layout.render_info) = 2
    /\ layout.render_info[2].attribute_offset
          > layout.render_info[2].index_offset + 2 * layout.render_info[2].index_count
    /\ layout.render_info[2].uniform_offset
          > layout.render_info[2].attribute_offset + 4 * layout.objects[2][2]

\* C20: submitted frames use the two slots in strict alternation: the slot index changes
\* only in a render call that submitted its frame, a call that returns after its submission
\* leaves the index advanced by 1 modulo 2, and a frame is submitted on a slot whose fence
\* is signaled, which is not the slot of the submitted frame before it and is the slot of
\* the one before that.
C20_StrictAlternation ==
    [][/\ current_in_flight_frame' # current_in_flight_frame
            => pc = "acquired" /\ call'.submitted
       /\ pc = "acquired" /\ pc' = "returned"
            => current_in_flight_frame' = (current_in_flight_frame + 1) % 2
       /\ pc = "acquired" /\ call'.submitted
            => /\ fence_signaled[in_flight_frames[current_in_flight_frame].fence]
               /\ Len(submitted_slots) >= 1
                    => submitted_slots[Len(submitted_slots)] # current_in_flight_frame
               /\ Len(submitted_slots) >= 2
                    => submitted_slots[Len(submitted_slots) - 1] = current_in_flight_frame
      ]_vars

\* a third frame is submitted: slot 0 is used again, two submitted frames after its first
C20_Witness ==
    /\ pc = "returned"
    /\ call.submitted
    /\ call.frame = 0
    /\ submitted_slots = <<1, 0>>
    /\ current_in_flight_frame = 1

\* C19: handle_resize destroys nothing while a submitted batch is pending; it destroys and
\* rebuilds the pipelines, the framebuffers, the image views, the depth image and the
\* swapchain, all of them; every rebuilt per-image record has no last-submission fence.
C19_ResizeRebuildsAll ==
    pc = "resized" =>
        /\ ~resize.pending_at_destroy
        /\ resize.destroyed =
              {"framebuffers", "image_views", "depth_image", "pipelines", "swapchain"}
        /\ resize.created = resize.destroyed
        /\ \A i \in Images : swapchain_frames[i].fence = NullFence

\* a resize after frames were submitted on both slots
C19_Witness ==
    /\ pc = "resized"
    /\ Len(submitted_slots) = 2
    /\ resize.destroyed # {}

\* C12: a render call on a scene without meshes, lights and text, with no static meshes
\* submitted, computes a size of 304 bytes, does not reallocate the buffer, records no draw
\* in any of the three secondary command buffers, and submits and presents its frame.
C12_EmptyScene ==
    (/\ pc \in {"returned", "panicked"}
     /\ call.packed
     /\ call.meshes = 0 /\ call.text = 0 /\ call.point_lights = 0
     /\ static_mesh_render_info = <<>>)
        => /\ call.buffer_size = 304
           /\ ~call.reallocated
           /\ call.draws = [basic |-> 0, lambert |-> 0, text |-> 0]
           /\ call.submitted
           /\ call.presented

\* an empty scene is rendered on a slot whose buffer an earlier frame has grown
C12_Witness ==
    /\ pc = "returned"
    /\ call.packed
    /\ call.meshes = 0 /\ call.text = 0 /\ call.point_lights = 0
    /\ call.submitted
    /\ in_flight_frames[call.frame].buffer.capacity > 304

\* C18 as stated: the replacement is created before the old memory is freed, and at no
\* step of reallocate does the Buffer hold only a freed allocation.
C18_Original ==
    /\ reallocation.step = "freed" => reallocation.handle # NullHandle
    /\ reallocation.buffer.handle # NullHandle
          => reallocation.buffer.handle \in reallocation.allocated

\* C18 amended: reallocate frees the old allocation first and creates the replacement
\* after it: once the old one is freed, and for good when allocate panics, the Buffer names
\* an allocation the device no longer has and no replacement exists; after allocate the
\* replacement exists; when reallocate has returned the Buffer holds a live allocation of
\* the requested capacity.
C18_FreeThenAllocate ==
    /\ reallocation.step \in {"freed", "panicked"}
          => /\ reallocation.buffer.handle \notin reallocation.allocated
             /\ reallocation.handle = NullHandle
    /\ reallocation.step = "allocated"
          => reallocation.handle \in reallocation.allocated
    /\ reallocation.step = "idle" /\ reallocation.capacity # 0
          => /\ reallocation.buffer.handle \in reallocation.allocated
             /\ reallocation.buffer.capacity = reallocation.capacity

\* the allocation of a Buffer that had one is freed and the replacement is not there yet
C18_Witness ==
    /\ reallocation.step = "freed"
    /\ reallocation.buffer.handle # NullHandle
    /\ reallocation.buffer.capacity # 0

\* C15: submit_static_meshes reallocates and overwrites the static buffer only with no
\* submitted batch pending: none is pending when the table and the buffer are changed,
\* none when the copy is submitted, and while the call is past its first wait no frame is
\* pending; when the call has returned the copy has completed and nothing was pending.
C15_StaticSubmitWaits ==
    /\ ~static_call.pending_at_entry
    /\ ~static_call.pending_at_copy
    /\ ~static_call.pending_at_return
    /\ pc \in {"static_recorded", "static_submitted"}
          => \A sub \in submissions : sub = CopySubmission
    /\ pc = "idle" /\ static_call.called => static_call.copied

\* a submit_static_meshes call that reallocated the buffer has returned, after a frame that
\* drew from the buffer as it was before
C15_Witness ==
    /\ pc = "idle"
    /\ static_call.copied
    /\ static_call.reallocated
    /\ static_call.before.handle # NullHandle
    /\ submitted_slots # <<>>

\* C29 as stated: remove(entity) succeeds for every entity that has the component, wherever
\* it is in the dense array; afterwards the entity has no component and every other entity
\* with a component borrows its own.
C29_Original ==
    (component_list.last.op = "remove" /\ component_list.last.had)
        => /\ component_list.last.outcome = "ok"
           /\ component_list.entity_to_index_map[component_list.last.entity] = None
           /\ \A e \in Entities :
                 component_list.owned[e] # NoComponent
                    => Borrow(component_list, e) = component_list.owned[e]

\* C30: after successful add and remove calls the sparse map and the dense array agree:
\* entity_to_index_map[e] is Some(i) exactly when components[i] is tagged with e, no
\* entity is tagged twice, and the dense array is as long as the number of mapped entities.
C30_MapAgreesWithArray ==
    component_list.last.outcome # "panic"
        => /\ \A e \in Entities : \A i \in 0 .. MaxEntities - 1 :
                 component_list.entity_to_index_map[e] = i
                    <=> (/\ i < Len(component_list.components)
                         /\ component_list.components[i + 1][1] = e)
           /\ \A i, j \in 1 .. Len(component_list.components) :
                 component_list.components[i][1] = component_list.components[j][1] => i = j
           /\ Len(component_list.components) =
                 Cardinality({e \in Entities : component_list.entity_to_index_map[e] # None})

\* the first of three components was removed: the last one took its place
C30_Witness ==
    /\ component_list.last.op = "remove"
    /\ component_list.last.outcome = "ok"
    /\ component_list.last.index = 0
    /\ component_list.last.len = 3
    /\ Len(component_list.components) = 2

\* C26 as stated: every byte written for point lights lies inside the frame header
\* [0, 304), also in a call that fails the maximum-point-light assertion.
C26_Original ==
    \A w \in frame.writes :
        w.kind \in {"light_position", "light_color"} => w.offset + w.size <= 304

\* C25 as stated: whenever render has submitted a frame, the slot's frame-data, mesh-data
\* and text-data descriptor sets reference the slot's current dynamic buffer.
C25_Original ==
    (pc \in {"returned", "panicked"} /\ call.submitted)
        => LET f == in_flight_frames[call.frame]
           IN /\ f.descriptor_sets.frame_data[1].buffer = f.buffer.handle
              /\ f.descriptor_sets.mesh_data[1].buffer = f.buffer.handle
              /\ f.descriptor_sets.text_data[1].buffer = f.buffer.handle
              /\ f.descriptor_sets.text_data[2].buffer = f.buffer.handle

\* C23 as stated: every mesh draw, static or dynamic, of every material of {Basic, Normal,
\* Lambert} is recorded into one secondary command buffer, the one of its material;
\* static and dynamic draws of a material share the buffer; text draws go to the text
\* buffer and nothing else does.
C23_Original ==
    recording.recorded =>
        /\ \A d \in recording.draws :
              d.source # "text" =>
                  d.buffer \in {"basic_secondary_command_buffer",
                                "lambert_secondary_command_buffer"}
        /\ \A d, e \in recording.draws :
              (d.source # "text" /\ e.source # "text")
                  => (d.material = e.material <=> d.buffer = e.buffer)
        /\ \A d \in recording.draws :
              d.source = "text" <=> d.buffer = "text_secondary_command_buffer"

\* C27: whatever submit_static_meshes and render calls were made, the render-info table
\* describes the current static buffer: the indices, the attributes and the uniform of
\* every entry lie within the buffer's capacity, and when the table is not empty the
\* static mesh descriptor set references the handle of the current static buffer.
C27_TableDescribesBuffer ==
    /\ \A k \in DOMAIN static_mesh_render_info :
          LET info == static_mesh_render_info[k]
          IN /\ info.index_offset + 2 * info.index_count <= static_mesh_buffer.capacity
             /\ info.attribute_offset + 4 * static_call.meshes[k].attributes
                   <= static_mesh_buffer.capacity
             /\ info.uniform_offset + 64 <= static_mesh_buffer.capacity
    /\ static_mesh_render_info # <<>>
          => /\ static_mesh_buffer.handle # NullHandle
             /\ static_mesh_data_descriptor_set[1].buffer = static_mesh_buffer.handle

\* a frame was submitted with draws from a static buffer that a second submission replaced
C27_Witness ==
    /\ pc = "returned"
    /\ call.submitted
    /\ static_mesh_render_info # <<>>
    /\ static_call.reallocated
    /\ static_call.before.handle # NullHandle

\* C28: on a GPU that completes every submitted batch every fence wait of render ends:
\* the completion fence of every slot and the last-submission fence of every image is
\* signaled or is the fence of a pending submission, and a fence that is not signaled
\* becomes signaled.
C28_FenceWaitsTerminate ==
    /\ [](\A s \in Slots :
            \/ fence_signaled[in_flight_frames[s].fence]
            \/ \E sub \in submissions : sub.fence = in_flight_frames[s].fence)
    /\ [](\A i \in Images :
            swapchain_frames[i].fence # NullFence
               => \/ fence_signaled[swapchain_frames[i].fence]
                  \/ \E sub \in submissions : sub.fence = swapchain_frames[i].fence)
    /\ \A s \in Slots :
          (~fence_signaled[FenceOf(s)]) ~> fence_signaled[FenceOf(s)]

\* a render call has acquired an image whose last-submission fence is not signaled yet
C28_Witness ==
    /\ pc = "acquired"
    /\ swapchain_frames[image_index].fence # NullFence
    /\ ~fence_signaled[swapchain_frames[image_index].fence]

\* C24: the UI projection a render call packs for text has the diagonal scale terms 2/w
\* and 2/h of the last handle_resize(w, h), for (800, 600) 2/800 and 2/600, and the other
\* terms it was constructed with.
C24_UiProjectionFollowsResize ==
    /\ ui_projection_matrix[1][1] = <<2, resize.width>>
    /\ ui_projection_matrix[2][2] = <<2, resize.height>>
    /\ (resize.width = 800 /\ resize.height = 600)
          => ui_projection_matrix[1][1] = <<2, 800>> /\ ui_projection_matrix[2][2] = <<2, 600>>
    /\ \A k \in DOMAIN call.text_matrices :
          LET m == call.text_matrices[k].projection
          IN /\ m[1] = <<<<2, resize.width>>, <<0, 1>>, <<-1, 1>>>>
             /\ m[2] = <<<<0, 1>>, <<2, resize.height>>, <<-1, 1>>>>
             /\ m[3] = <<<<0, 1>>, <<0, 1>>, <<1, 1>>>>

\* a text run is packed by a render call that follows a resize to a size that is not the
\* one of the construction
C24_Witness ==
    /\ pc = "returned"
    /\ call.submitted
    /\ Len(call.text_matrices) = 1
    /\ resize.width = 600
    /\ resize.height = 800

\* C22: for every dynamic mesh, text run, static mesh and camera whose auto-update flag is
\* set, the matrix bytes a call packs are composed from the position, rotation and scale
\* the object has at the time of the call; a stale matrix is never packed.
C22_FlaggedMatricesAreFresh ==
    /\ \A k \in DOMAIN matrices.packed_meshes :
          matrices.packed_meshes[k].auto_update_matrix
             => matrices.packed_meshes[k].bytes = Compose(matrices.packed_meshes[k].pose)
    /\ \A k \in DOMAIN matrices.packed_static :
          matrices.packed_static[k].auto_update_matrix
             => matrices.packed_static[k].bytes = Compose(matrices.packed_static[k].pose)
    /\ \A k \in DOMAIN matrices.packed_text :
          matrices.packed_text[k].auto_update_matrix
             => matrices.packed_text[k].bytes.transform
                   = Compose(matrices.packed_text[k].pose)
    /\ \A k \in DOMAIN matrices.packed_camera :
          matrices.packed_camera[k].auto_update_matrix
             => matrices.packed_camera[k].bytes
                   = Invert(Compose(matrices.packed_camera[k].pose))

\* a render call and a static submission have each packed a flagged object whose matrix
\* was stale when the call began: a mesh, a text, the camera, a static mesh
C22_Witness ==
    /\ \E k \in DOMAIN matrices.packed_meshes :
          /\ matrices.packed_meshes[k].auto_update_matrix
          /\ matrices.packed_meshes[k].before # Compose(matrices.packed_meshes[k].pose)
    /\ \E k \in DOMAIN matrices.packed_text :
          /\ matrices.packed_text[k].auto_update_matrix
          /\ matrices.packed_text[k].before # Compose(matrices.packed_text[k].pose)
    /\ \E k \in DOMAIN matrices.packed_camera :
          /\ matrices.packed_camera[k].auto_update_matrix
          /\ matrices.packed_camera[k].before # Compose(matrices.packed_camera[k].pose)
    /\ \E k \in DOMAIN matrices.packed_static :
          /\ matrices.packed_static[k].auto_update_matrix
          /\ matrices.packed_static[k].before # Compose(matrices.packed_static[k].pose)

\* C21 as stated: for each submitted frame, the GPU starts executing the frame only after
\* the acquired image is available.
C21_Original ==
    \A s \in Slots :
       gpu.batches[s].phase \in {"early_stages", "color_output", "finished"}
          => gpu.batches[s].started_available

\* C21, amended: for each submitted frame, the color-attachment-output stage of the frame
\* starts only after the acquired image is available (the earlier stages may run before);
\* the slot's render-finished signal and completion fence are signaled only when the
\* frame's rendering has finished; the image is presented only after render-finished.
C21_FrameOrdering ==
    /\ [](/\ \A s \in Slots :
                gpu.batches[s].phase \in {"color_output", "finished"}
                   => gpu.batches[s].color_available
          /\ \A s \in Slots :
                gpu.batches[s].phase \in {"queued", "early_stages", "color_output"}
                   => ~fence_signaled[in_flight_frames[s].fence]
          /\ gpu.presented # NoPresent => gpu.presented.rendered)
    /\ [][\A s \in Slots :
            (\/ ~gpu.render_finished[s] /\ gpu.render_finished'[s]
             \/ /\ ~fence_signaled[in_flight_frames[s].fence]
                /\ fence_signaled'[in_flight_frames'[s].fence])
               => /\ gpu.batches[s].phase = "color_output"
                  /\ gpu.batches'[s].phase = "finished"]_vars

\* a frame was rendered and presented, and the frame submitted after it is at its
\* color-attachment-output stage
C21_Witness ==
    /\ gpu.presented # NoPresent
    /\ gpu.batches[gpu.presented.slot].phase = "finished"
    /\ \E s \in Slots :
          /\ s # gpu.presented.slot
          /\ gpu.batches[s].phase = "color_output"

\* C31: borrow, borrow_mut and remove on an entity without the component, and add on an
\* entity that has one, fail with an assertion and leave the list as it was; try_borrow and
\* try_borrow_mut return None for an entity without the component and do not fail.
C31_MissingComponentCalls ==
    LET last == component_list.last
        unchanged == /\ component_list.components = last.before.components
                     /\ component_list.entity_to_index_map = last.before.entity_to_index_map
    IN /\ (last.op \in {"borrow", "borrow_mut", "remove"} /\ ~last.had)
             => last.outcome = "panic" /\ unchanged
       /\ (last.op = "add" /\ last.had) => last.outcome = "panic" /\ unchanged
       /\ (last.op \in {"try_borrow", "try_borrow_mut"} /\ ~last.had)
             => last.outcome = "ok" /\ last.result = NoComponent /\ unchanged

\* try_borrow is called for an entity whose component was removed, in a list that holds two
\* other components
C31_Witness ==
    /\ component_list.last.op = "try_borrow"
    /\ ~component_list.last.had
    /\ component_list.owned[component_list.last.entity] = NoComponent
    /\ Len(component_list.components) = 2

\* C32: after any sequence of Buffer new, null and reallocate calls, capacity is the size
\* asked for by the last allocation, 0 for a null buffer that was never reallocated, and
\* reallocate allocates with the usage and memory-property flags the buffer was made with.
C32_CapacityOfLastAllocation ==
    reallocation.step = "idle"
       => /\ reallocation.allocation.made
                => /\ reallocation.buffer.capacity = reallocation.allocation.size
                   /\ reallocation.allocation.usage = reallocation.created_with.usage
                   /\ reallocation.allocation.properties
                         = reallocation.created_with.properties
          /\ ~reallocation.allocation.made
                => reallocation.made = "null" /\ reallocation.buffer.capacity = 0
          /\ reallocation.usage = reallocation.created_with.usage
          /\ reallocation.properties = reallocation.created_with.properties

\* a buffer made by Buffer::null has come back from a reallocate call to a capacity other
\* than the first one
C32_Witness ==
    /\ reallocation.step = "idle"
    /\ reallocation.made = "null"
    /\ reallocation.allocation.made
    /\ reallocation.buffer.capacity = 128
    /\ reallocation.buffer.handle \in reallocation.allocated

\* the index, attribute and uniform byte ranges of the static meshes laid out, as
\* <<first byte, end>>
StaticByteRanges ==
    UNION {{<<layout.render_info[k].index_offset,
              layout.render_info[k].index_offset + 2 * layout.render_info[k].index_count>>,
            <<layout.render_info[k].attribute_offset,
              layout.render_info[k].attribute_offset + 4 * layout.objects[k][2]>>,
            <<layout.render_info[k].uniform_offset,
              layout.render_info[k].uniform_offset + 64>>}
           : k \in DOMAIN layout.render_info}

\* C33: for every static mesh list and every alignment, the index, attribute and uniform
\* byte ranges submit_static_meshes computes are pairwise disjoint and end at or before the
\* total buffer size, which is the capacity of the staging buffer and the size of the copy.
C33_StaticRangesDisjoint ==
    layout.packed = "static"
       => /\ \A a, b \in StaticByteRanges : a # b => (a[2] <= b[1] \/ b[2] <= a[1])
          /\ Cardinality(StaticByteRanges) = 3 * Len(layout.render_info)
          /\ \A a \in StaticByteRanges : a[1] < a[2] /\ a[2] <= layout.buffer_size
          /\ layout.staging_capacity = layout.buffer_size
          /\ layout.copy_size = layout.buffer_size

\* two static meshes are laid out: the second starts after a gap behind the first one's
\* uniform, and the total size is larger than the end of the last uniform
C33_Witness ==
    /\ layout.packed = "static"
    /\ Len(layout.render_info) = 2
    /\ layout.render_info[2].index_offset = layout.render_info[1].uniform_offset + 64
    /\ layout.buffer_size > layout.render_info[2].uniform_offset + 64

\* C34: a render call aborted by an out-of-date acquisition returns true and leaves the
\* slot index, the slot's completion fence (signaled), every per-image last-submission
\* fence, the dynamic buffers and the offsets cached on the scene's objects as they were;
\* the next render call is on the same slot and finds its fence signaled.
C34_AbortLeavesSlot ==
    /\ [][(pc = "idle" /\ acquire_result' = "out_of_date")
             => /\ pc' = "returned" /\ ret' = "true"
                /\ current_in_flight_frame' = current_in_flight_frame
                /\ fence_signaled' = fence_signaled
                /\ fence_signaled'[in_flight_frames[current_in_flight_frame].fence]
                /\ swapchain_frames' = swapchain_frames
                /\ in_flight_frames' = in_flight_frames
                /\ submissions' = submissions
                /\ scene' = scene /\ frame' = frame /\ call' = call]_vars
    /\ [][(acquire_result = "out_of_date" /\ pc = "returned" /\ pc' = "idle")
             => /\ current_in_flight_frame' = current_in_flight_frame
                /\ InFlightFrameAvailable(in_flight_frames[current_in_flight_frame])']_vars
    /\ []((acquire_result = "out_of_date" /\ pc = "returned")
             => InFlightFrameAvailable(in_flight_frames[current_in_flight_frame]))

\* a call on slot 1 is aborted by an out-of-date acquisition after frames were submitted:
\* an image has a last-submission fence and a frame is still running
C34_Witness ==
    /\ pc = "returned"
    /\ acquire_result = "out_of_date"
    /\ current_in_flight_frame = 1
    /\ \E i \in Images : swapchain_frames[i].fence # NullFence
    /\ submissions # {}

\* C35: each swapchain image record's last-submission fence is null or the completion
\* fence of one of the two slots; all of them are null right after the swapchain is created
\* and right after handle_resize.
C35_ImageFencesAreSlotFences ==
    /\ \A i \in Images : swapchain_frames[i].fence = NullFence
    /\ [](/\ \A i \in Images :
                \/ swapchain_frames[i].fence = NullFence
                \/ \E s \in Slots : swapchain_frames[i].fence = in_flight_frames[s].fence
          /\ pc = "resized" => \A i \in Images : swapchain_frames[i].fence = NullFence)

\* handle_resize has rebuilt the swapchain after frames were submitted on both slots
C35_Witness ==
    /\ pc = "resized"
    /\ Len(submitted_slots) = 2
    /\ \A s \in Slots : fence_signaled[in_flight_frames[s].fence]

\* C36 as stated: each slot's two semaphores strictly alternate signal and wait in every
\* sequence of render calls, aborted acquisitions included: a slot acquires only when its
\* image-available is unsignaled with no signal on its way, an aborted acquisition signals
\* nothing, every batch waits on its slot's image-available and every presentation on its
\* slot's render-finished, and neither semaphore is signaled while a previous signal of it
\* is still unconsumed.
C36_Original ==
    /\ [](\A k \in DOMAIN gpu.queue :
             gpu.queue[k].wait = gpu.queue[k].slot)
    /\ [][\A s \in Slots :
            /\ (pc = "idle" /\ pc' = "acquired" /\ current_in_flight_frame = s)
                  => ~gpu.image_available[s] /\ gpu.acquiring[s] = NoImage
            /\ (pc = "idle" /\ pc' = "returned") => gpu' = gpu
            /\ (gpu.acquiring[s] # NoImage /\ gpu.acquiring'[s] = NoImage)
                  => ~gpu.image_available[s]
            /\ (gpu.batches[s].phase = "color_output" /\ gpu.batches'[s].phase = "finished")
                  => ~gpu.render_finished[gpu.batches[s].signal]]_vars
====
